---- MODULE Spec2Model ----
(***************************************************************************)
(* A model of the chat-completion core of LlamaEdge (llama-core/src/chat.rs *)
(* and the helpers it calls in llama-core/src/utils.rs).                   *)
(*                                                                         *)
(* Text is modelled as a sequence of atoms.  An atom is either a single    *)
(* character class (" " whitespace, "x" any other character, "<") or one   *)
(* of the multi-character sentinels the code searches for ("</s>",         *)
(* "<|im_end|>", ...), or one whole tool-call block written in the graph   *)
(* template's own tool-call syntax ("call_ok", "call_escaped",             *)
(* "call_noname", "call_badjson").  The backend (wasmedge_wasi_nn) is      *)
(* opaque: everything it returns is drawn from a small set.                *)
(***************************************************************************)
EXTENDS Integers, Sequences, FiniteSets, TLC

VARIABLES
    \* ---- the graph (one entry of CHAT_GRAPHS) ----
    prompt_template,    \* graph.metadata.prompt_template
    \* ---- one-shot driver (compute_by_graph) ----
    once_pc,            \* "idle", "ready" before graph.compute(), "done" after
    tool_use,           \* the tool_use flag build_prompt reported
    compute_result,     \* what graph.compute() returned
    output_buffer,      \* history: the read of output slot 0 (the raw generation)
    response,           \* what compute_by_graph returned
    \* ---- streaming (ChatStream) ----
    stream_pc,              \* "idle", "live", "failed" (no stream built), "dropped"
    chat_stream_result,     \* "None", "Ok" or the error chat_stream returned
    include_usage,          \* ChatStream.include_usage
    cache,                  \* ChatStream.cache: Option<VecDeque<String>>
    stream_state,           \* ChatStream.stream_state
    context_full_state,     \* ChatStream.context_full_state
    prompt_too_long_state,  \* ChatStream.prompt_too_long_state
    cached_encodings,       \* CACHED_UTF8_ENCODINGS (process-wide)
    yielded,                \* history: the items poll_next returned, in order
    calls,                  \* history: what compute_single returned, in order
    finish_single_calls,    \* history: number of graph.finish_single() calls
    \* ---- prompt builder (build_prompt) ----
    bp_pc,              \* "idle", "loop", "returned", "failed", "panicked"
    messages,           \* chat_request.messages
    original_messages,  \* history: chat_request.messages as received
    ctx_size,           \* metadata.ctx_size
    tool_choice,        \* chat_request.tool_choice
    tools,              \* chat_request.tools
    bp_result,          \* what build_prompt returned
    first_over,         \* history: how the first render compared to the limit
    \* ---- metadata of the graph and of the request being served ----
    meta_pc,            \* "idle", "checked", "updated", "computing"
    graph_metadata,     \* graph.metadata
    backend_config,     \* the record the backend holds in input slot 1
    request,            \* the options of the request being served
    metadata,           \* the request's local copy of the metadata
    \* ---- the tasks of the process and the lock of the registry ----
    running_mode,       \* RUNNING_MODE
    chat_graphs_lock,   \* the task holding the guard of CHAT_GRAPHS, or 0
    task,               \* per task: where its request or its stream stands
    input_prompt        \* per graph: the task whose prompt input slot 0 holds, or 0

once_vars == <<once_pc, tool_use, compute_result, output_buffer, response>>

stream_vars ==
    <<stream_pc, chat_stream_result, include_usage, cache, stream_state,
      context_full_state, prompt_too_long_state, cached_encodings, yielded,
      calls, finish_single_calls>>

prompt_vars ==
    <<bp_pc, messages, original_messages, ctx_size, tool_choice, tools,
      bp_result, first_over>>

meta_vars == <<meta_pc, graph_metadata, backend_config, request, metadata>>

task_vars == <<running_mode, chat_graphs_lock, task, input_prompt>>

vars == <<prompt_template, once_vars, stream_vars, prompt_vars, meta_vars, task_vars>>

(***************************************************************************)
(* Bounds of the model.                                                    *)
(***************************************************************************)
MaxOutputLen == 3       \* longest raw generation, in atoms
MaxTokenCount == 2      \* largest token count the backend reports
MaxTokenLen == 3        \* longest token compute_single produces, in bytes
MaxStreamTokens == 3    \* most tokens one stream generates
MaxPulls == 5           \* most pulls on one stream
MaxFailedPulls == 1     \* pulls stop after this many of them failed
MaxMessages == 4        \* longest message list of a request
MaxPromptTokens == 5    \* largest prompt_tokens the backend reports
MaxTasks == 2           \* tasks that run requests and streams side by side
MaxTaskPulls == 2       \* most pulls a task makes on its stream
MaxLeftover == 1        \* longest residual a later stream is started on, in bytes

(***************************************************************************)
(* Strings as sequences of atoms: the std::str operations the code uses.   *)
(***************************************************************************)
IsWhitespace(a) == a \in {" ", "\n"}

RECURSIVE TrimStart(_)
TrimStart(s) ==
    IF s # <<>> /\ IsWhitespace(Head(s)) THEN TrimStart(Tail(s)) ELSE s

RECURSIVE TrimEnd(_)
TrimEnd(s) ==
    IF s # <<>> /\ IsWhitespace(s[Len(s)])
    THEN TrimEnd(SubSeq(s, 1, Len(s) - 1))
    ELSE s

Trim(s) == TrimEnd(TrimStart(s))

StartsWith(s, p) == Len(s) >= Len(p) /\ SubSeq(s, 1, Len(p)) = p

EndsWith(s, p) ==
    Len(s) >= Len(p) /\ SubSeq(s, Len(s) - Len(p) + 1, Len(s)) = p

MatchAt(s, p, i) == i + Len(p) - 1 <= Len(s) /\ SubSeq(s, i, i + Len(p) - 1) = p

Contains(s, p) == \E i \in 1..Len(s) : MatchAt(s, p, i)

\* str::find: the index of the first match (only used when Contains holds)
Find(s, p) == CHOOSE i \in 1..Len(s) :
                  MatchAt(s, p, i) /\ \A j \in 1..(i - 1) : ~MatchAt(s, p, j)

RECURSIVE TrimEndMatches(_, _)
TrimEndMatches(s, p) ==
    IF EndsWith(s, p)
    THEN TrimEndMatches(SubSeq(s, 1, Len(s) - Len(p)), p)
    ELSE s

RECURSIVE TrimStartMatches(_, _)
TrimStartMatches(s, p) ==
    IF StartsWith(s, p)
    THEN TrimStartMatches(SubSeq(s, Len(p) + 1, Len(s)), p)
    ELSE s

\* s.split(p).collect::<Vec<_>>()[0]
SplitFirst(s, p) == IF Contains(s, p) THEN SubSeq(s, 1, Find(s, p) - 1) ELSE s

RECURSIVE Replace(_, _, _)
Replace(s, p, r) ==
    IF s = <<>> THEN <<>>
    ELSE IF MatchAt(s, p, 1)
         THEN r \o Replace(SubSeq(s, Len(p) + 1, Len(s)), p, r)
         ELSE <<Head(s)>> \o Replace(Tail(s), p, r)

\* Results of functions that may abort (panic) instead of returning.
Returned(s) == [panic |-> FALSE, val |-> s]
Panicked == [panic |-> TRUE, val |-> <<>>]

(***************************************************************************)
(* post_process: strips the template's end-of-turn sentinels.              *)
(***************************************************************************)
PromptTemplateType ==
    {"Baichuan2", "OpenChat", "GemmaInstruct", "ChatML", "ChatMLTool",
     "Zephyr", "MistralLite", "MistralTool", "MistralInstruct",
     "DeepseekChat", "HumanAssistant", "SolarInstruct", "Llama2Chat",
     "Llama3Chat", "Phi3Chat", "Qwen2vl"}

\* if output.contains(p) { output.trim_end_matches(p).trim() } else { output.trim() }
TrimSentinelIfContained(output, p) ==
    IF Contains(output, p) THEN Trim(TrimEndMatches(output, p)) ELSE Trim(output)

\* let s = output.trim(); if s.ends_with(p) { s.trim_end_matches(p).trim() } else { s }
TrimSentinelIfSuffix(output, p) ==
    LET s == Trim(output)
    IN  IF EndsWith(s, p) THEN Trim(TrimEndMatches(s, p)) ELSE s

post_process_chatml(output) ==
    IF Contains(output, <<"<|im_start|>">>) /\ Contains(output, <<"<|im_end|>">>)
    THEN IF Find(output, <<"<|im_start|>">>) <= Find(output, <<"<|im_end|>">>)
         THEN Trim(SplitFirst(output, <<"<|im_start|>">>))
         ELSE Trim(SplitFirst(output, <<"<|im_end|>">>))
    ELSE IF Contains(output, <<"<|im_start|>">>)
    THEN Trim(SplitFirst(output, <<"<|im_start|>">>))
    ELSE IF Contains(output, <<"<|im_end|>">>)
    THEN Trim(SplitFirst(output, <<"<|im_end|>">>))
    ELSE Trim(output)

\* strip_suffix("</s>").unwrap() aborts when "</s>" is not the suffix
post_process_mistral(output) ==
    IF Contains(output, <<"</s>", "<">>)
    THEN Returned(Trim(TrimEndMatches(output, <<"</s>", "<">>)))
    ELSE IF Contains(output, <<"</s>">>)
    THEN IF EndsWith(output, <<"</s>">>)
         THEN Returned(Trim(SubSeq(output, 1, Len(output) - 1)))
         ELSE Panicked
    ELSE Returned(Trim(output))

post_process_deepseek(output) ==
    IF Contains(output, <<"<|end_of_sentence|>">>)
    THEN Trim(Replace(Trim(TrimEndMatches(output, <<"<|end_of_sentence|>">>)),
                      <<"<|end_of_sentence|>">>, <<" ">>))
    ELSE Trim(output)

post_process_solar(output) ==
    LET s == Trim(output)
    IN  IF StartsWith(s, <<"###", " ", "Answer">>)
        THEN LET s2 == Trim(TrimStartMatches(s, <<"###">>))
             IN  IF StartsWith(s2, <<"Answer", ":", "\n">>)
                 THEN Replace(s2, <<"Answer", ":", "\n">>, <<"Answer", ":", " ">>)
                 ELSE s2
        ELSE s

\* "yonghu:" stands for the Baichuan2 sentinel (the two CJK characters
\* for "user" followed by a colon).
post_process(output, template_ty) ==
    IF template_ty = "Baichuan2"
    THEN Returned(TrimSentinelIfContained(output, <<"yonghu:">>))
    ELSE IF template_ty = "OpenChat"
    THEN Returned(TrimSentinelIfContained(output, <<"<|end_of_turn|>">>))
    ELSE IF template_ty = "GemmaInstruct"
    THEN Returned(TrimSentinelIfSuffix(output, <<"<end_of_turn>">>))
    ELSE IF template_ty \in {"ChatML", "ChatMLTool"}
    THEN Returned(post_process_chatml(output))
    ELSE IF template_ty \in {"Zephyr", "MistralLite", "MistralTool", "MistralInstruct"}
    THEN post_process_mistral(output)
    ELSE IF template_ty = "DeepseekChat"
    THEN Returned(post_process_deepseek(output))
    ELSE IF template_ty = "HumanAssistant"
    THEN Returned(TrimSentinelIfContained(output, <<"Human:">>))
    ELSE IF template_ty = "SolarInstruct"
    THEN Returned(post_process_solar(output))
    ELSE IF template_ty = "Llama2Chat"
    THEN Returned(TrimSentinelIfSuffix(output, <<"</s>">>))
    ELSE IF template_ty = "Llama3Chat"
    THEN Returned(TrimSentinelIfSuffix(output, <<"<|eot_id|>">>))
    ELSE IF template_ty = "Phi3Chat"
    THEN Returned(TrimSentinelIfSuffix(output, <<"<|end|>">>))
    ELSE Returned(Trim(output))

(***************************************************************************)
(* parse_tool_calls.  A tool-call block is one atom:                       *)
(*   "call_ok"      the pattern matches and the capture is JSON with both  *)
(*                  a name and an arguments member;                        *)
(*   "call_escaped" a "call_ok" whose arguments hold the escape \n;        *)
(*   "call_noname"  the pattern matches, the capture is valid JSON, but    *)
(*                  value.get("name") or value.get("arguments") is None;   *)
(*   "call_badjson" the pattern matches and serde_json rejects the capture.*)
(* The result is Option<Vec<ToolCall>>, or an abort from unwrap().         *)
(***************************************************************************)
ToolCallAtoms == {"call_ok", "call_escaped", "call_noname", "call_badjson"}

\* the name and arguments members of a block, as the generation spells them.
\* "call_escaped" is a "call_ok" whose arguments hold a string with the
\* two-character escape sequence \n in it.
Captured(value) ==
    [name |-> "f",
     arguments |-> IF value = "call_escaped" THEN <<"a", "\\n", "b">> ELSE <<"a">>]

\* ChatMLTool removes every "\\n" from the capture before it is parsed
\* (cap[1].replace("\\n", "")); MistralTool parses the capture as it is
ToolCall(value, template) ==
    [id |-> "call_abc123", ty |-> "function",
     function |->
        [name |-> Captured(value).name,
         arguments |-> IF template = "ChatMLTool"
                       THEN Replace(Captured(value).arguments, <<"\\n">>, <<>>)
                       ELSE Captured(value).arguments]]

\* the captures serde_json accepts, in order of appearance
RECURSIVE CapturedValues(_)
CapturedValues(input) ==
    IF input = <<>> THEN <<>>
    ELSE IF Head(input) \in {"call_ok", "call_escaped", "call_noname"}
         THEN <<Head(input)>> \o CapturedValues(Tail(input))
         ELSE CapturedValues(Tail(input))

SomeCalls(tool_calls) == [panic |-> FALSE, some |-> TRUE, calls |-> tool_calls]
NoCalls == [panic |-> FALSE, some |-> FALSE, calls |-> <<>>]
ParsePanicked == [panic |-> TRUE, some |-> FALSE, calls |-> <<>>]

\* both supported templates run the same loop over their own pattern
parse_tool_calls_matched(input, template) ==
    LET values == CapturedValues(input)
    IN  IF \E i \in 1..Len(values) : values[i] = "call_noname"
        THEN ParsePanicked
        ELSE SomeCalls([i \in 1..Len(values) |-> ToolCall(values[i], template)])

parse_tool_calls(input, template) ==
    IF template \in {"MistralTool", "ChatMLTool"}
    THEN parse_tool_calls_matched(input, template)
    ELSE NoCalls

(***************************************************************************)
(* The backend's replies.                                                  *)
(***************************************************************************)
\* graph.compute() / graph.compute_single(): Ok, one of the three terminal
\* conditions, or any other backend error
ComputeResults == {"Ok", "ContextFull", "PromptTooLong", "Other"}

\* get_token_info_by_graph: Err, or the counts decoded from output slot 1
TokenCounts == 1..MaxTokenCount
TokenInfoErr == [ok |-> FALSE, prompt_tokens |-> 0, completion_tokens |-> 0]
TokenInfos ==
    {TokenInfoErr} \cup
    [ok : {TRUE}, prompt_tokens : TokenCounts, completion_tokens : TokenCounts]

\* the raw generations: every string of at most MaxOutputLen atoms
OutputAtoms ==
    {"x", " ", "</s>", "<|im_end|>", "call_ok", "call_escaped", "call_noname",
     "call_badjson"}

RECURSIVE StringsUpTo(_, _)
StringsUpTo(atoms, n) ==
    IF n = 0 THEN {<<>>}
    ELSE LET shorter == StringsUpTo(atoms, n - 1)
         IN  shorter \cup {<<a>> \o s : a \in atoms, s \in {t \in shorter : Len(t) = n - 1}}

\* get_output_buffer + std::str::from_utf8: the read fails, the bytes are not
\* valid UTF-8, or they decode to a string
OutputErr == [status |-> "GetOutputErr", text |-> <<>>]
OutputNotUtf8 == [status |-> "InvalidUtf8", text |-> <<>>]
Outputs ==
    {OutputErr, OutputNotUtf8} \cup
    [status : {"Ok"}, text : StringsUpTo(OutputAtoms, MaxOutputLen)]

(***************************************************************************)
(* compute_by_graph: the one-shot driver.                                  *)
(***************************************************************************)
NoUsage == [prompt_tokens |-> 0, completion_tokens |-> 0, total_tokens |-> 0]

NoResponse ==
    [result |-> "None", finish_reason |-> "", content |-> <<>>,
     tool_calls |-> <<>>, usage |-> NoUsage]

ErrResponse(e) == [NoResponse EXCEPT !.result = e]

PanicResponse == [NoResponse EXCEPT !.result = "Panic"]

ChatCompletionObject(message, tool_calls, finish_reason, usage) ==
    [result |-> "Ok", finish_reason |-> finish_reason, content |-> message,
     tool_calls |-> tool_calls, usage |-> usage]

\* the Usage literal of the Ok and ContextFull arms (and of every usage chunk)
Usage(token_info) ==
    [prompt_tokens |-> token_info.prompt_tokens,
     completion_tokens |-> token_info.completion_tokens,
     total_tokens |-> token_info.prompt_tokens + token_info.completion_tokens]

\* the Usage literal of the PromptTooLong arm of compute_by_graph
UsagePromptTooLong(token_info) ==
    [prompt_tokens |-> token_info.prompt_tokens,
     completion_tokens |-> token_info.completion_tokens,
     total_tokens |-> token_info.completion_tokens + token_info.completion_tokens]

SupportsTools(template) == template \in {"MistralTool", "ChatMLTool"}

\* match tool_use { true => ..., false => ... } in the Ok arm
ComputeOkResponse(template, use_tools, message, token_info) ==
    IF use_tools
    THEN IF ~SupportsTools(template)
         THEN ErrResponse("Operation")
         ELSE LET parsed == parse_tool_calls(message, template)
              IN  IF parsed.panic THEN PanicResponse
                  ELSE IF parsed.some
                  THEN ChatCompletionObject(message, parsed.calls, "tool_calls",
                                            Usage(token_info))
                  ELSE ChatCompletionObject(message, <<>>, "stop", Usage(token_info))
    ELSE ChatCompletionObject(message, <<>>, "stop", Usage(token_info))

\* the steps the Ok, ContextFull and PromptTooLong arms share: read output
\* slot 0, decode, post-process, read the token counts
ComputeArm(template, use_tools, result, output, token_info) ==
    IF output.status = "GetOutputErr" THEN ErrResponse("Backend::GetOutput")
    ELSE IF output.status = "InvalidUtf8" THEN ErrResponse("Operation")
    ELSE LET message == post_process(output.text, template)
         IN  IF message.panic THEN PanicResponse
             ELSE IF ~token_info.ok THEN ErrResponse("Backend::GetOutput")
             ELSE IF result = "Ok"
             THEN ComputeOkResponse(template, use_tools, message.val, token_info)
             ELSE IF result = "ContextFull"
             THEN ChatCompletionObject(message.val, <<>>, "length", Usage(token_info))
             ELSE ChatCompletionObject(message.val, <<>>, "length",
                                       UsagePromptTooLong(token_info))

compute_by_graph_result(template, use_tools, result, output, token_info) ==
    IF result = "Other"
    THEN ErrResponse("Backend::Compute")
    ELSE ComputeArm(template, use_tools, result, output, token_info)

\* the templates the one-shot model runs: the two that support tools and one
\* that does not
OnceTemplates == {"ChatMLTool", "MistralTool", "Llama2Chat"}

\* no stream has been built
StreamIdle ==
    /\ stream_pc = "idle"
    /\ chat_stream_result = "None"
    /\ include_usage = FALSE
    /\ cache = [some |-> FALSE, chunks |-> <<>>]
    /\ stream_state = "Done"
    /\ context_full_state = "Message"
    /\ prompt_too_long_state = "Message"
    /\ cached_encodings = <<>>
    /\ yielded = <<>>
    /\ calls = <<>>
    /\ finish_single_calls = 0

(***************************************************************************)
(* Metadata: the requests served on one graph, one after the other.  Each  *)
(* request runs check_model_metadata, build_prompt, update_n_predict,      *)
(* set_prompt and then the compute call.  graph.metadata is what the graph *)
(* was configured with; update_model_metadata writes a record to input     *)
(* slot 1 of the backend and leaves graph.metadata as it is.               *)
(***************************************************************************)
\* sampling values: 0 is what the graph is configured with
SamplingValues == {0, 1}

\* Option<T>: None is <<>>, Some(v) is <<v>>
Options(values) == {<<>>} \cup {<<v>> : v \in values}

Metadata(temperature, top_p, frequency_penalty, presence_penalty, n_predict, embeddings, ctx) ==
    [temperature |-> temperature, top_p |-> top_p,
     frequency_penalty |-> frequency_penalty,
     presence_penalty |-> presence_penalty, n_predict |-> n_predict,
     embeddings |-> embeddings, ctx_size |-> ctx]

\* the configurations of the graph
GraphMetadatas ==
    {Metadata(0, 0, 0, 0, n, e, c) : n \in {1, 3}, e \in BOOLEAN, c \in {5, 10}}

Requests ==
    [temperature : Options(SamplingValues), top_p : Options(SamplingValues),
     frequency_penalty : Options(SamplingValues),
     presence_penalty : Options(SamplingValues), max_tokens : Options({1, 3})]

NoRequest ==
    [temperature |-> <<>>, top_p |-> <<>>, frequency_penalty |-> <<>>,
     presence_penalty |-> <<>>, max_tokens |-> <<>>]

\* if let Some(v) = option { if current != v { current = v; should_update = true } }
Overlay(current, option) == IF option # <<>> THEN option[1] ELSE current

\* a variant of check_model_metadata below that leaves embeddings as
\* configured
CheckedMetadataKeepingEmbeddings(configured, req) ==
    [configured EXCEPT
        !.temperature = Overlay(configured.temperature, req.temperature),
        !.top_p = Overlay(configured.top_p, req.top_p),
        !.frequency_penalty = Overlay(configured.frequency_penalty,
                                      req.frequency_penalty),
        !.presence_penalty = Overlay(configured.presence_penalty,
                                     req.presence_penalty)]

\* check_model_metadata: the record it returns
CheckedMetadata(configured, req) ==
    [configured EXCEPT
        !.temperature = Overlay(configured.temperature, req.temperature),
        !.top_p = Overlay(configured.top_p, req.top_p),
        !.frequency_penalty = Overlay(configured.frequency_penalty,
                                      req.frequency_penalty),
        !.presence_penalty = Overlay(configured.presence_penalty,
                                     req.presence_penalty),
        !.embeddings = FALSE]

\* check_model_metadata: should_update
CheckShouldUpdate(configured, req) == CheckedMetadata(configured, req) # configured

\* let max_prompt_tokens = ctx_size * 4 / 5
max_prompt_tokens(ctx) == (ctx * 4) \div 5

\* build_prompt's second result: ctx_size - max_prompt_tokens
Available(ctx) == ctx - max_prompt_tokens(ctx)

\* update_n_predict: the record it leaves in metadata
NPredictMetadata(md, req, available) ==
    IF req.max_tokens # <<>>
    THEN [md EXCEPT !.n_predict = IF available < req.max_tokens[1]
                                  THEN available ELSE req.max_tokens[1]]
    ELSE IF md.n_predict > available
    THEN [md EXCEPT !.n_predict = available]
    ELSE md

\* a variant of should_update below that is set by max_tokens only
NPredictShouldUpdateForMaxTokensOnly(md, req, available) == req.max_tokens # <<>>

\* update_n_predict: should_update
NPredictShouldUpdate(md, req, available) ==
    req.max_tokens # <<>> \/ md.n_predict > available

MetaIdle ==
    /\ meta_pc = "idle"
    /\ graph_metadata = Metadata(0, 0, 0, 0, 0, FALSE, 0)
    /\ backend_config = Metadata(0, 0, 0, 0, 0, FALSE, 0)
    /\ request = NoRequest
    /\ metadata = Metadata(0, 0, 0, 0, 0, FALSE, 0)

\* the tasks of the process: each runs one request and, if the request
\* streams, pulls and drops the stream it got
Tasks == 1..MaxTasks

IdleTask ==
    [pc |-> "idle", kind |-> "none", graph |-> "none", program |-> <<>>,
     ops |-> <<>>, holding |-> FALSE, busy |-> FALSE, stream |-> "none",
     pulls |-> 0, result |-> "None", touched |-> FALSE, pruned |-> FALSE]

\* no task has started
TasksIdle ==
    /\ running_mode = "Chat"
    /\ chat_graphs_lock = 0
    /\ task = [t \in Tasks |-> IdleTask]
    /\ input_prompt = [g \in {"a", "b"} |-> 0]

\* build_prompt is not running
PromptIdle ==
    /\ bp_pc = "idle"
    /\ messages = <<>>
    /\ original_messages = <<>>
    /\ ctx_size = 0
    /\ tool_choice = "absent"
    /\ tools = "absent"
    /\ bp_result = [result |-> "None", prompt |-> <<>>, available |-> 0, tool_use |-> FALSE]
    /\ first_over = "unknown"

\* no one-shot request is running
OnceIdle ==
    /\ once_pc = "idle"
    /\ tool_use = FALSE
    /\ compute_result = "None"
    /\ output_buffer = [status |-> "None", text |-> <<>>]
    /\ response = NoResponse

OnceInit ==
    /\ StreamIdle
    /\ PromptIdle
    /\ MetaIdle
    /\ TasksIdle
    /\ once_pc = "ready"
    /\ prompt_template \in OnceTemplates
    /\ tool_use \in BOOLEAN
    /\ compute_result = "None"
    /\ output_buffer = [status |-> "None", text |-> <<>>]
    /\ response = NoResponse

compute_by_graph ==
    /\ once_pc = "ready"
    /\ \E result \in ComputeResults, output \in Outputs, token_info \in TokenInfos :
          /\ compute_result' = result
          /\ output_buffer' = output
          /\ response' = compute_by_graph_result(prompt_template, tool_use, result,
                                                 output, token_info)
    /\ once_pc' = "done"
    /\ UNCHANGED <<prompt_template, tool_use, stream_vars, prompt_vars, meta_vars, task_vars>>

OnceNext == compute_by_graph

SpecOnce == OnceInit /\ [][OnceNext]_vars

(***************************************************************************)
(* Streaming: the items a ChatStream yields.  An item is one SSE frame     *)
(* ("data: {chunk}\n\n" or "data: [DONE]\n\n"), an error, or the end of    *)
(* the stream; a frame is kept as the fields of the chunk it serializes.   *)
(***************************************************************************)
Item(item, choices, content_some, content, tool_calls, finish_reason, usage_some, usage, err) ==
    [item |-> item, choices |-> choices, content_some |-> content_some,
     content |-> content, tool_calls |-> tool_calls,
     finish_reason |-> finish_reason, usage_some |-> usage_some,
     usage |-> usage, err |-> err]

\* ChatCompletionChunk with one choice (delta.content, delta.tool_calls,
\* finish_reason) and usage: None
MessageChunk(content_some, content, tool_calls, finish_reason) ==
    Item("chunk", 1, content_some, content, tool_calls, finish_reason, FALSE,
         NoUsage, "")

\* ChatCompletionChunk with choices: vec![] and usage: Some(..)
UsageChunk(token_info) ==
    Item("chunk", 0, FALSE, <<>>, <<>>, "null", TRUE, Usage(token_info), "")

DoneItem == Item("[DONE]", 0, FALSE, <<>>, <<>>, "null", FALSE, NoUsage, "")

\* the string compute_stream returns once a sub-state is EndOfSequence
EndOfSequenceMark ==
    Item("[GGML] End of sequence", 0, FALSE, <<>>, <<>>, "null", FALSE, NoUsage, "")

ErrItem(e) == Item("Err", 0, FALSE, <<>>, <<>>, "null", FALSE, NoUsage, e)

\* Poll::Ready(None)
NoneItem == Item("None", 0, FALSE, <<>>, <<>>, "null", FALSE, NoUsage, "")

(***************************************************************************)
(* String::from_utf8.  Bytes are 0..255; a decoded character is written as *)
(* the decimal numeral of its scalar value.                                *)
(***************************************************************************)
IsContinuation(b) == b \in 128..191

Utf8Width(b) ==
    IF b < 128 THEN 1
    ELSE IF b \in 194..223 THEN 2
    ELSE IF b \in 224..239 THEN 3
    ELSE IF b \in 240..244 THEN 4
    ELSE 0

Utf8SecondOk(b0, b1) ==
    IF b0 = 224 THEN b1 \in 160..191
    ELSE IF b0 = 237 THEN b1 \in 128..159
    ELSE IF b0 = 240 THEN b1 \in 144..191
    ELSE IF b0 = 244 THEN b1 \in 128..143
    ELSE IsContinuation(b1)

Utf8Scalar(bytes) ==
    IF Len(bytes) = 1 THEN bytes[1]
    ELSE IF Len(bytes) = 2 THEN (bytes[1] - 192) * 64 + (bytes[2] - 128)
    ELSE IF Len(bytes) = 3
    THEN (bytes[1] - 224) * 4096 + (bytes[2] - 128) * 64 + (bytes[3] - 128)
    ELSE (bytes[1] - 240) * 262144 + (bytes[2] - 128) * 4096
         + (bytes[3] - 128) * 64 + (bytes[4] - 128)

Utf8Error == [ok |-> FALSE, text |-> <<>>]

RECURSIVE from_utf8(_)
from_utf8(bytes) ==
    IF bytes = <<>> THEN [ok |-> TRUE, text |-> <<>>]
    ELSE LET w == Utf8Width(Head(bytes))
         IN  IF w = 0 \/ Len(bytes) < w THEN Utf8Error
             ELSE IF w >= 2 /\ ~Utf8SecondOk(bytes[1], bytes[2]) THEN Utf8Error
             ELSE IF \E i \in 3..w : ~IsContinuation(bytes[i]) THEN Utf8Error
             ELSE LET rest == from_utf8(SubSeq(bytes, w + 1, Len(bytes)))
                  IN  IF rest.ok
                      THEN [ok |-> TRUE,
                            text |-> <<ToString(Utf8Scalar(SubSeq(bytes, 1, w)))>>
                                     \o rest.text]
                      ELSE Utf8Error

(***************************************************************************)
(* What the backend gives a stream.                                        *)
(***************************************************************************)
ComputeSingleResults == ComputeResults \cup {"EndOfSequence"}

\* the bytes a token may be made of: the two bytes of U+00E9
Bytes == {195, 169}

Tokens == StringsUpTo(Bytes, MaxTokenLen)

\* get_output_buffer_single: Err, or the bytes of the token just generated
SingleOutputErr == [ok |-> FALSE, bytes |-> <<>>]
SingleOutputs == {SingleOutputErr} \cup [ok : {TRUE}, bytes : Tokens]

\* get_token_info_by_graph during a stream: Err, or the counts
StreamTokenInfos ==
    {TokenInfoErr,
     [ok |-> TRUE, prompt_tokens |-> MaxTokenCount, completion_tokens |-> 1]}

\* one entry of the history of compute_single calls: its result, whether
\* the read that followed it succeeded, and the token bytes it produced
Call(result, read_ok, bytes) ==
    [result |-> result, read_ok |-> read_ok, bytes |-> bytes]

(***************************************************************************)
(* ChatStream::new, compute_stream, poll_next, Drop.                       *)
(***************************************************************************)
NoCache == [some |-> FALSE, chunks |-> <<>>]
SomeCache(chunks) == [some |-> TRUE, chunks |-> chunks]

\* let stream_state = if include_usage { Usage } else { Done }
ChatStreamNew(usage, chunks) ==
    [include_usage |-> usage, cache |-> chunks,
     stream_state |-> IF usage THEN "Usage" ELSE "Done",
     context_full_state |-> "Message",
     prompt_too_long_state |-> "Message"]

\* a variant of the guard below that never ends the pull early
AnyEndOfSequenceNever(pts, cfs, ss) == FALSE

\* a variant of the guard below that looks at stream_state only
AnyEndOfSequenceOfStreamState(pts, cfs, ss) == ss = "EndOfSequence"

\* the guard at the top of compute_stream
AnyEndOfSequence(pts, cfs, ss) ==
    pts = "EndOfSequence" \/ cfs = "EndOfSequence" \/ ss = "EndOfSequence"

\* what one call of compute_stream does: its return value, the sub-states
\* and the residual it leaves, how often it called finish_single, and the
\* entry it adds to the history of compute_single calls (none: <<>>)
Step(ret, ss, cfs, pts, residual, finished, call) ==
    [ret |-> ret, stream_state |-> ss, context_full_state |-> cfs,
     prompt_too_long_state |-> pts, cached_encodings |-> residual,
     finish_single |-> finished, call |-> call]

\* Ok arm: read the token, decode it alone, else through the residual
ComputeStreamOk(output) ==
    IF ~output.ok
    THEN Step(ErrItem("Backend::GetOutput"), stream_state, context_full_state,
              prompt_too_long_state, cached_encodings, 0,
              <<Call("Ok", FALSE, <<>>)>>)
    ELSE LET alone == from_utf8(output.bytes)
             extended == cached_encodings \o output.bytes
             again == from_utf8(extended)
             call == <<Call("Ok", TRUE, output.bytes)>>
         IN  IF alone.ok
             THEN Step(MessageChunk(TRUE, alone.text, <<>>, "null"), stream_state,
                       context_full_state, prompt_too_long_state,
                       cached_encodings, 0, call)
             ELSE IF again.ok
             THEN Step(MessageChunk(TRUE, again.text, <<>>, "null"), stream_state,
                       context_full_state, prompt_too_long_state, <<>>, 0, call)
             ELSE IF Len(extended) > 4
             THEN Step(ErrItem("Operation"), stream_state, context_full_state,
                       prompt_too_long_state, extended, 0, call)
             ELSE Step(MessageChunk(TRUE, <<>>, <<>>, "null"), stream_state,
                       context_full_state, prompt_too_long_state, extended, 0, call)

\* the usage step of each of the three arms: the sub-state is assigned
\* before get_token_info_by_graph is tried
UsageStep(token_info) ==
    IF token_info.ok THEN UsageChunk(token_info) ELSE ErrItem("Backend::GetOutput")

\* the EndOfSequence step of each arm: finish_single, then the end mark
FinishStep(finish_ok) ==
    IF finish_ok THEN EndOfSequenceMark ELSE ErrItem("Backend::FinishSingle")

\* a variant of the Err(EndOfSequence) arm below whose [DONE] step ends the
\* other two sub-state machines as well
ComputeStreamEndOfSequenceEndingAll(token_info, finish_ok) ==
    IF stream_state = "Usage"
    THEN Step(UsageStep(token_info), "Done", context_full_state,
              prompt_too_long_state, cached_encodings, 0,
              <<Call("EndOfSequence", token_info.ok, <<>>)>>)
    ELSE IF stream_state = "Done"
    THEN Step(DoneItem, "EndOfSequence", "EndOfSequence", "EndOfSequence",
              cached_encodings, 0, <<Call("EndOfSequence", TRUE, <<>>)>>)
    ELSE Step(FinishStep(finish_ok), stream_state, context_full_state,
              prompt_too_long_state, cached_encodings, 1,
              <<Call("EndOfSequence", TRUE, <<>>)>>)

\* a variant of the Err(EndOfSequence) arm below that assigns stream_state
\* only after the token counts were read, so that a failed read is retried
ComputeStreamEndOfSequenceRetryingUsage(token_info, finish_ok) ==
    IF stream_state = "Usage"
    THEN Step(UsageStep(token_info), IF token_info.ok THEN "Done" ELSE "Usage",
              context_full_state, prompt_too_long_state, cached_encodings, 0,
              <<Call("EndOfSequence", token_info.ok, <<>>)>>)
    ELSE IF stream_state = "Done"
    THEN Step(DoneItem, "EndOfSequence", context_full_state,
              prompt_too_long_state, cached_encodings, 0,
              <<Call("EndOfSequence", TRUE, <<>>)>>)
    ELSE Step(FinishStep(finish_ok), stream_state, context_full_state,
              prompt_too_long_state, cached_encodings, 1,
              <<Call("EndOfSequence", TRUE, <<>>)>>)

\* Err(EndOfSequence) arm: match stream_state
ComputeStreamEndOfSequence(token_info, finish_ok) ==
    IF stream_state = "Usage"
    THEN Step(UsageStep(token_info), "Done", context_full_state,
              prompt_too_long_state, cached_encodings, 0,
              <<Call("EndOfSequence", token_info.ok, <<>>)>>)
    ELSE IF stream_state = "Done"
    THEN Step(DoneItem, "EndOfSequence", context_full_state,
              prompt_too_long_state, cached_encodings, 0,
              <<Call("EndOfSequence", TRUE, <<>>)>>)
    ELSE Step(FinishStep(finish_ok), stream_state, context_full_state,
              prompt_too_long_state, cached_encodings, 1,
              <<Call("EndOfSequence", TRUE, <<>>)>>)

\* a variant of the Err(ContextFull) arm below whose Message step always
\* goes on to Done
ComputeStreamContextFullSkippingUsage(token_info, finish_ok) ==
    IF context_full_state = "Message"
    THEN Step(MessageChunk(TRUE, <<"<|WASMEDGE-GGML-CONTEXT-FULL|>">>, <<>>, "length"),
              stream_state, "Done", prompt_too_long_state, cached_encodings, 0,
              <<Call("ContextFull", TRUE, <<>>)>>)
    ELSE IF context_full_state = "Done"
    THEN Step(DoneItem, stream_state, "EndOfSequence", prompt_too_long_state,
              cached_encodings, 0, <<Call("ContextFull", TRUE, <<>>)>>)
    ELSE Step(FinishStep(finish_ok), stream_state, context_full_state,
              prompt_too_long_state, cached_encodings, 1,
              <<Call("ContextFull", TRUE, <<>>)>>)

\* Err(ContextFull) arm: match context_full_state
ComputeStreamContextFull(token_info, finish_ok) ==
    IF context_full_state = "Message"
    THEN Step(MessageChunk(TRUE, <<"<|WASMEDGE-GGML-CONTEXT-FULL|>">>, <<>>, "length"),
              stream_state, IF include_usage THEN "Usage" ELSE "Done",
              prompt_too_long_state, cached_encodings, 0,
              <<Call("ContextFull", TRUE, <<>>)>>)
    ELSE IF context_full_state = "Usage"
    THEN Step(UsageStep(token_info), stream_state, "Done",
              prompt_too_long_state, cached_encodings, 0,
              <<Call("ContextFull", token_info.ok, <<>>)>>)
    ELSE IF context_full_state = "Done"
    THEN Step(DoneItem, stream_state, "EndOfSequence", prompt_too_long_state,
              cached_encodings, 0, <<Call("ContextFull", TRUE, <<>>)>>)
    ELSE Step(FinishStep(finish_ok), stream_state, context_full_state,
              prompt_too_long_state, cached_encodings, 1,
              <<Call("ContextFull", TRUE, <<>>)>>)

\* a variant of the Err(PromptTooLong) arm below whose first chunk carries
\* an empty string as its content
ComputeStreamPromptTooLongWithContent(token_info, finish_ok) ==
    IF prompt_too_long_state = "Message"
    THEN Step(MessageChunk(TRUE, <<>>, <<>>, "length"), stream_state,
              context_full_state, IF include_usage THEN "Usage" ELSE "Done",
              cached_encodings, 0, <<Call("PromptTooLong", TRUE, <<>>)>>)
    ELSE IF prompt_too_long_state = "Usage"
    THEN Step(UsageStep(token_info), stream_state, context_full_state, "Done",
              cached_encodings, 0,
              <<Call("PromptTooLong", token_info.ok, <<>>)>>)
    ELSE IF prompt_too_long_state = "Done"
    THEN Step(DoneItem, stream_state, context_full_state, "EndOfSequence",
              cached_encodings, 0, <<Call("PromptTooLong", TRUE, <<>>)>>)
    ELSE Step(FinishStep(finish_ok), stream_state, context_full_state,
              prompt_too_long_state, cached_encodings, 1,
              <<Call("PromptTooLong", TRUE, <<>>)>>)

\* Err(PromptTooLong) arm: match prompt_too_long_state
ComputeStreamPromptTooLong(token_info, finish_ok) ==
    IF prompt_too_long_state = "Message"
    THEN Step(MessageChunk(FALSE, <<>>, <<>>, "length"), stream_state,
              context_full_state, IF include_usage THEN "Usage" ELSE "Done",
              cached_encodings, 0, <<Call("PromptTooLong", TRUE, <<>>)>>)
    ELSE IF prompt_too_long_state = "Usage"
    THEN Step(UsageStep(token_info), stream_state, context_full_state, "Done",
              cached_encodings, 0,
              <<Call("PromptTooLong", token_info.ok, <<>>)>>)
    ELSE IF prompt_too_long_state = "Done"
    THEN Step(DoneItem, stream_state, context_full_state, "EndOfSequence",
              cached_encodings, 0, <<Call("PromptTooLong", TRUE, <<>>)>>)
    ELSE Step(FinishStep(finish_ok), stream_state, context_full_state,
              prompt_too_long_state, cached_encodings, 1,
              <<Call("PromptTooLong", TRUE, <<>>)>>)

\* a variant of the arm below that leaves the context to Drop
ComputeStreamOtherSkippingFinish(finish_ok) ==
    Step(ErrItem("Backend::ComputeSingle"),
         stream_state, context_full_state, prompt_too_long_state,
         cached_encodings, 0, <<Call("Other", TRUE, <<>>)>>)

\* any other error: finish_single, then Err(ComputeSingle)
ComputeStreamOther(finish_ok) ==
    Step(IF finish_ok THEN ErrItem("Backend::ComputeSingle")
                      ELSE ErrItem("Backend::FinishSingle"),
         stream_state, context_full_state, prompt_too_long_state,
         cached_encodings, 1, <<Call("Other", TRUE, <<>>)>>)

compute_stream(result, output, token_info, finish_ok) ==
    IF AnyEndOfSequence(prompt_too_long_state, context_full_state, stream_state)
    THEN Step(EndOfSequenceMark, stream_state, context_full_state,
              prompt_too_long_state, cached_encodings, 0, <<>>)
    ELSE IF result = "Ok" THEN ComputeStreamOk(output)
    ELSE IF result = "EndOfSequence"
    THEN ComputeStreamEndOfSequence(token_info, finish_ok)
    ELSE IF result = "ContextFull"
    THEN ComputeStreamContextFull(token_info, finish_ok)
    ELSE IF result = "PromptTooLong"
    THEN ComputeStreamPromptTooLong(token_info, finish_ok)
    ELSE ComputeStreamOther(finish_ok)

\* poll_next on the value compute_stream returned: the end mark (or an
\* empty string, which compute_stream never returns) ends the stream
PollItem(ret) == IF ret = EndOfSequenceMark THEN NoneItem ELSE ret

(***************************************************************************)
(* chat_stream_by_graph: the pre-computed stream of the tool path.         *)
(***************************************************************************)
\* a variant of the constructor below that queues the usage chunk only
\* when the request asked for it
StreamBuiltWithOptionalUsage(usage, chunks) ==
    [result |-> "Ok",
     stream |-> ChatStreamNew(usage,
                    SomeCache(IF usage THEN chunks
                              ELSE SelectSeq(chunks, LAMBDA c : ~c.usage_some)))]

\* Ok(ChatStream::new(.., Some(vec![..])))
StreamBuilt(usage, chunks) ==
    [result |-> "Ok", stream |-> ChatStreamNew(usage, SomeCache(chunks))]

StreamFailed(e) == [result |-> e, stream |-> ChatStreamNew(FALSE, NoCache)]

\* the cache is always vec![message chunk, usage_chunk, ending_chunk]
ToolStreamOk(template, usage, message, token_info) ==
    IF ~SupportsTools(template)
    THEN StreamFailed("Operation")
    ELSE LET parsed == parse_tool_calls(message, template)
         IN  IF parsed.panic THEN StreamFailed("Panic")
             ELSE StreamBuilt(usage,
                      <<MessageChunk(TRUE, message,
                                     IF parsed.some THEN parsed.calls ELSE <<>>,
                                     "null"),
                        UsageChunk(token_info), DoneItem>>)

chat_stream_by_graph_result(template, usage, result, output, token_info) ==
    IF result = "Other" THEN StreamFailed("Backend::Compute")
    ELSE IF output.status = "GetOutputErr" THEN StreamFailed("Backend::GetOutput")
    ELSE IF output.status = "InvalidUtf8" THEN StreamFailed("Operation")
    ELSE LET message == post_process(output.text, template)
         IN  IF message.panic THEN StreamFailed("Panic")
             ELSE IF ~token_info.ok THEN StreamFailed("Backend::GetOutput")
             ELSE IF result = "Ok"
             THEN ToolStreamOk(template, usage, message.val, token_info)
             ELSE StreamBuilt(usage,
                      <<MessageChunk(TRUE, message.val, <<>>, "length"),
                        UsageChunk(token_info), DoneItem>>)

\* the generations the tool path of a stream is run on
StreamOutputAtoms == {"x", "call_ok", "call_noname"}

StreamOutputs ==
    {OutputErr, OutputNotUtf8} \cup
    [status : {"Ok"}, text : StringsUpTo(StreamOutputAtoms, MaxOutputLen)]

\* a template that supports tools and one that does not
StreamTemplates == {"ChatMLTool", "Llama2Chat"}

(***************************************************************************)
(* The streaming specification: one stream is built, pulled and dropped.   *)
(***************************************************************************)
RECURSIVE Count(_, _)
Count(seq, value) ==
    IF seq = <<>> THEN 0
    ELSE (IF Head(seq) = value THEN 1 ELSE 0) + Count(Tail(seq), value)

Results(history) == [i \in 1..Len(history) |-> history[i].result]
Kinds(items) == [i \in 1..Len(items) |-> items[i].item]

StreamInit ==
    /\ prompt_template \in StreamTemplates
    /\ OnceIdle
    /\ PromptIdle
    /\ StreamIdle
    /\ MetaIdle
    /\ TasksIdle

\* the end of chat_stream: match tool_use { false => ChatStream::new(..,
\* None), true => chat_stream_by_graph(..)? }
chat_stream ==
    /\ stream_pc = "idle"
    /\ \E usage \in BOOLEAN, use_tools \in BOOLEAN, result \in ComputeResults,
          output \in StreamOutputs, token_info \in StreamTokenInfos :
          LET built == IF use_tools
                       THEN chat_stream_by_graph_result(prompt_template, usage,
                                                        result, output, token_info)
                       ELSE [result |-> "Ok",
                             stream |-> ChatStreamNew(usage, NoCache)]
          IN  /\ chat_stream_result' = built.result
              /\ stream_pc' = IF built.result = "Ok" THEN "live" ELSE "failed"
              /\ include_usage' = built.stream.include_usage
              /\ cache' = built.stream.cache
              /\ stream_state' = built.stream.stream_state
              /\ context_full_state' = built.stream.context_full_state
              /\ prompt_too_long_state' = built.stream.prompt_too_long_state
    /\ UNCHANGED <<cached_encodings, yielded, calls, finish_single_calls,
                   prompt_template, once_vars, prompt_vars, meta_vars, task_vars>>

\* ChatStream::poll_next: pop the cache, or run compute_stream; the backend
\* answers compute_single with one of `results` and reads give one of `outputs`
PollNext(results, outputs) ==
    /\ stream_pc = "live"
    /\ Len(yielded) < MaxPulls
    /\ IF cache.some
       THEN /\ yielded' = Append(yielded, IF cache.chunks = <<>> THEN NoneItem
                                          ELSE Head(cache.chunks))
            /\ cache' = IF cache.chunks = <<>> THEN cache
                        ELSE SomeCache(Tail(cache.chunks))
            /\ UNCHANGED <<stream_state, context_full_state, prompt_too_long_state,
                           cached_encodings, calls, finish_single_calls>>
       ELSE \E result \in results :
            \E output \in (IF result = "Ok" THEN outputs ELSE {SingleOutputErr}),
               token_info \in (IF result \in {"Ok", "Other"} THEN {TokenInfoErr}
                               ELSE StreamTokenInfos),
               finish_ok \in BOOLEAN :
               LET step == compute_stream(result, output, token_info, finish_ok)
               IN  /\ result = "Ok" =>
                          Count(Results(calls), "Ok") < MaxStreamTokens
                   /\ yielded' = Append(yielded, PollItem(step.ret))
                   /\ Count(Kinds(yielded'), "Err") <= MaxFailedPulls
                   /\ stream_state' = step.stream_state
                   /\ context_full_state' = step.context_full_state
                   /\ prompt_too_long_state' = step.prompt_too_long_state
                   /\ cached_encodings' = step.cached_encodings
                   /\ calls' = calls \o step.call
                   /\ finish_single_calls' = finish_single_calls + step.finish_single
                   /\ UNCHANGED cache
    /\ UNCHANGED <<stream_pc, chat_stream_result, include_usage, prompt_template,
                   once_vars, prompt_vars, meta_vars, task_vars>>

\* impl Drop for ChatStream: if self.cache.is_none() { graph.finish_single() }
drop ==
    /\ stream_pc = "live"
    /\ stream_pc' = "dropped"
    /\ finish_single_calls' = IF cache.some THEN finish_single_calls
                              ELSE finish_single_calls + 1
    /\ UNCHANGED <<chat_stream_result, include_usage, cache, stream_state,
                   context_full_state, prompt_too_long_state, cached_encodings,
                   yielded, calls, prompt_template, once_vars, prompt_vars, meta_vars, task_vars>>

\* a stream pulled against a backend that may answer anything in any order;
\* its tokens are one ASCII character or one lead byte of a longer one
ShortOutputs == {SingleOutputErr} \cup [ok : {TRUE}, bytes : {<<65>>, <<195>>}]

poll_next == PollNext(ComputeSingleResults, ShortOutputs)

StreamNext == chat_stream \/ poll_next \/ drop

Spec == StreamInit /\ [][StreamNext]_vars

\* the next request of the process: chat_stream builds a new ChatStream
\* after the previous one was dropped.  ChatStream::new sets the fields of
\* the stream only; CACHED_UTF8_ENCODINGS is a static of the process and
\* is left as the previous stream left it.  The histories start again.
chat_stream_again ==
    /\ stream_pc = "dropped"
    /\ Len(cached_encodings) <= MaxLeftover
    /\ \E usage \in BOOLEAN :
          LET stream == ChatStreamNew(usage, NoCache)
          IN  /\ include_usage' = stream.include_usage
              /\ cache' = stream.cache
              /\ stream_state' = stream.stream_state
              /\ context_full_state' = stream.context_full_state
              /\ prompt_too_long_state' = stream.prompt_too_long_state
    /\ stream_pc' = "live"
    /\ chat_stream_result' = "Ok"
    /\ yielded' = <<>>
    /\ calls' = <<>>
    /\ finish_single_calls' = 0
    /\ UNCHANGED <<cached_encodings, prompt_template, once_vars, prompt_vars,
                   meta_vars, task_vars>>

\* a stream pulled against a backend that generates tokens of up to
\* MaxTokenLen bytes and then reports EndOfSequence
GenerationResults == {"Ok", "EndOfSequence"}

poll_next_generation == PollNext(GenerationResults, SingleOutputs)

GenerationNext == chat_stream \/ poll_next_generation \/ drop \/ chat_stream_again

GenerationInit == StreamInit /\ prompt_template = "ChatMLTool"

SpecGeneration == GenerationInit /\ [][GenerationNext]_vars

(***************************************************************************)
(* build_prompt: render, measure, prune until the prompt fits.  A message  *)
(* is its role and its index in the request; the prompt is the sequence of *)
(* turns the Qwen2vl template renders.                                     *)
(***************************************************************************)
Roles == {"System", "User", "Assistant", "Tool"}

\* ctx_size of the graphs the model runs
CtxSizes == {4, 5}

Message(role, id) == [role |-> role, id |-> id]

\* the request's message list with the given roles
Messages(roles) == [i \in 1..Len(roles) |-> Message(roles[i], i)]

\* the tool_use flag of the render step: tool_choice is Some and not
\* ToolChoice::None, and tools is Some (of any length)
ToolUse(choice, tls) == choice \in {"Auto", "Named"} /\ tls # "absent"

Turn(kind, id) == [turn |-> kind, id |-> id]

\* Qwen2vlPrompt::build, the loop over the messages: the system prompt is
\* written by the first user message appended to an empty history
RECURSIVE QwenAppend(_, _, _)
QwenAppend(prompt, system_prompt, ms) ==
    IF ms = <<>> THEN prompt
    ELSE IF Head(ms).role = "User"
    THEN QwenAppend((IF prompt = <<>> THEN <<system_prompt>> ELSE prompt)
                        \o <<Turn("user", Head(ms).id)>>,
                    system_prompt, Tail(ms))
    ELSE IF Head(ms).role = "Assistant"
    THEN QwenAppend(prompt \o <<Turn("assistant", Head(ms).id)>>,
                    system_prompt, Tail(ms))
    ELSE QwenAppend(prompt, system_prompt, Tail(ms))

\* Qwen2vlPrompt::build on a non-empty list (id 0: the default system prompt)
QwenBuild(ms) ==
    QwenAppend(<<>>,
               Turn("system", IF ms[1].role = "System" THEN ms[1].id ELSE 0),
               ms)
    \o <<Turn("assistant_cue", 0)>>

\* Vec::remove(i) with i counted from 0
Remove(ms, i) == SubSeq(ms, 1, i) \o SubSeq(ms, i + 2, Len(ms))

\* messages[i].role() with i counted from 0
RoleAt(ms, i) == ms[i + 1].role

Pruned(ms) == [outcome |-> "continue", messages |-> ms]
CannotPrune(ms) == [outcome |-> "return", messages |-> ms]
PruneAborted(ms) == [outcome |-> "panic", messages |-> ms]

\* a variant of the System arm below that never removes a message
PruneSystemFirstKeepingAll(ms) == Pruned(ms)

\* the ChatCompletionRole::System arm
PruneSystemFirst(ms) ==
    IF Len(ms) >= 4
    THEN LET a == IF RoleAt(ms, 1) = "User" THEN Remove(ms, 1) ELSE ms
             b == IF RoleAt(a, 1) = "Assistant" THEN Remove(a, 1) ELSE a
         IN  Pruned(b)
    ELSE IF Len(ms) = 3 /\ RoleAt(ms, 1) = "User"
    THEN Pruned(Remove(ms, 1))
    ELSE CannotPrune(ms)

\* the ChatCompletionRole::User arm; messages[0] on an empty list aborts
PruneUserFirst(ms) ==
    IF Len(ms) >= 3
    THEN LET a == IF RoleAt(ms, 0) = "User" THEN Remove(ms, 0) ELSE ms
             b == IF RoleAt(a, 0) = "Assistant" THEN Remove(a, 0) ELSE a
         IN  IF RoleAt(b, 0) = "Tool"
             THEN LET c == Remove(b, 0)
                  IN  IF c = <<>> THEN PruneAborted(c)
                      ELSE IF RoleAt(c, 0) = "Assistant"
                      THEN Pruned(Remove(c, 0))
                      ELSE Pruned(c)
             ELSE Pruned(b)
    ELSE IF Len(ms) = 2 /\ RoleAt(ms, 0) = "User"
    THEN Pruned(Remove(ms, 0))
    ELSE CannotPrune(ms)

\* match chat_request.messages[0].role()
Prune(ms) ==
    IF RoleAt(ms, 0) = "System" THEN PruneSystemFirst(ms)
    ELSE IF RoleAt(ms, 0) = "User" THEN PruneUserFirst(ms)
    ELSE PruneAborted(ms)

NoPrompt == [result |-> "None", prompt |-> <<>>, available |-> 0, tool_use |-> FALSE]

BuildPromptErr(e) == [NoPrompt EXCEPT !.result = e]

BuildPromptOk(prompt, ctx, use_tools) ==
    [result |-> "Ok", prompt |-> prompt,
     available |-> Available(ctx), tool_use |-> use_tools]

\* what one iteration of the loop does: where the loop stands after it, the
\* message list, the value returned, and how the prompt compared to the limit
Iteration(pc, ms, result, over) ==
    [pc |-> pc, messages |-> ms, result |-> result, over |-> over]

build_prompt_iteration(ms, ctx, choice, tls, render_ok, set_ok, token_info) ==
    IF ms = <<>> \/ ~render_ok
    THEN Iteration("failed", ms, BuildPromptErr("Operation"), "unknown")
    ELSE IF ~set_ok
    THEN Iteration("failed", ms, BuildPromptErr("Operation"), "unknown")
    ELSE IF ~token_info.ok
    THEN Iteration("failed", ms, BuildPromptErr("Backend::GetOutput"), "unknown")
    ELSE IF token_info.prompt_tokens > max_prompt_tokens(ctx)
    THEN LET pruned == Prune(ms)
         IN  IF pruned.outcome = "panic"
             THEN Iteration("panicked", pruned.messages, BuildPromptErr("Panic"), "over")
             ELSE IF pruned.outcome = "return"
             THEN Iteration("returned", ms,
                            BuildPromptOk(QwenBuild(ms), ctx, ToolUse(choice, tls)),
                            "over")
             ELSE Iteration("loop", pruned.messages, NoPrompt, "over")
    ELSE Iteration("returned", ms,
                   BuildPromptOk(QwenBuild(ms), ctx, ToolUse(choice, tls)), "fits")

\* get_token_info_by_graph_name after set_prompt
PromptTokenInfos ==
    {TokenInfoErr} \cup
    [ok : {TRUE}, prompt_tokens : 0..MaxPromptTokens, completion_tokens : {0}]

PromptInit ==
    /\ prompt_template = "Qwen2vl"
    /\ OnceIdle
    /\ StreamIdle
    /\ MetaIdle
    /\ TasksIdle
    /\ bp_pc = "loop"
    /\ \E roles \in StringsUpTo(Roles, MaxMessages) :
          /\ original_messages = Messages(roles)
          /\ messages = Messages(roles)
    /\ ctx_size \in CtxSizes
    /\ tool_choice \in {"absent", "None", "Auto", "Named"}
    /\ tools \in {"absent", "empty", "some"}
    /\ bp_result = NoPrompt
    /\ first_over = "unknown"

\* one pass through the loop of build_prompt
build_prompt ==
    /\ bp_pc = "loop"
    /\ \E render_ok \in BOOLEAN, set_ok \in BOOLEAN, token_info \in PromptTokenInfos :
          LET it == build_prompt_iteration(messages, ctx_size, tool_choice, tools,
                                           render_ok, set_ok, token_info)
          IN  /\ bp_pc' = it.pc
              /\ messages' = it.messages
              /\ bp_result' = it.result
              /\ first_over' = IF first_over = "unknown" THEN it.over ELSE first_over
    /\ UNCHANGED <<original_messages, ctx_size, tool_choice, tools,
                   prompt_template, once_vars, stream_vars, meta_vars, task_vars>>

PromptNext == build_prompt

SpecPrompt == PromptInit /\ [][PromptNext]_vars

(***************************************************************************)
(* The requests served on one graph.                                       *)
(***************************************************************************)
MetaInit ==
    /\ prompt_template = "Qwen2vl"
    /\ OnceIdle
    /\ StreamIdle
    /\ PromptIdle
    /\ TasksIdle
    /\ meta_pc = "idle"
    /\ graph_metadata \in GraphMetadatas
    /\ backend_config = graph_metadata
    /\ request = NoRequest
    /\ metadata = graph_metadata

\* the request is over (answered or failed): its locals are gone
RequestOver ==
    /\ meta_pc' = "idle"
    /\ request' = NoRequest
    /\ metadata' = graph_metadata

\* a request arrives and check_model_metadata runs; a failed write to input
\* slot 1 ends the request
check_model_metadata ==
    /\ meta_pc = "idle"
    /\ \E req \in Requests, write_ok \in BOOLEAN :
          LET md == CheckedMetadata(graph_metadata, req)
              should_update == CheckShouldUpdate(graph_metadata, req)
          IN  IF should_update /\ ~write_ok
              THEN RequestOver /\ UNCHANGED backend_config
              ELSE /\ meta_pc' = "checked"
                   /\ request' = req
                   /\ metadata' = md
                   /\ backend_config' = IF should_update THEN md ELSE backend_config
    /\ UNCHANGED <<graph_metadata, prompt_template, once_vars, stream_vars,
                   prompt_vars, task_vars>>

\* build_prompt returns (or fails and ends the request), then
\* update_n_predict runs
update_n_predict ==
    /\ meta_pc = "checked"
    /\ \E build_ok \in BOOLEAN, write_ok \in BOOLEAN :
          LET available == Available(graph_metadata.ctx_size)
              md == NPredictMetadata(metadata, request, available)
              should_update == NPredictShouldUpdate(metadata, request, available)
          IN  IF ~build_ok \/ (should_update /\ ~write_ok)
              THEN RequestOver /\ UNCHANGED backend_config
              ELSE /\ meta_pc' = "updated"
                   /\ metadata' = md
                   /\ backend_config' = IF should_update THEN md ELSE backend_config
                   /\ UNCHANGED request
    /\ UNCHANGED <<graph_metadata, prompt_template, once_vars, stream_vars,
                   prompt_vars, task_vars>>

\* set_prompt, then graph.compute() or the first graph.compute_single()
compute ==
    /\ meta_pc = "updated"
    /\ \E set_ok \in BOOLEAN :
          IF set_ok
          THEN meta_pc' = "computing" /\ UNCHANGED <<request, metadata>>
          ELSE RequestOver
    /\ UNCHANGED <<graph_metadata, backend_config, prompt_template, once_vars,
                   stream_vars, prompt_vars, task_vars>>

\* the request is answered
respond ==
    /\ meta_pc = "computing"
    /\ RequestOver
    /\ UNCHANGED <<graph_metadata, backend_config, prompt_template, once_vars,
                   stream_vars, prompt_vars, task_vars>>

MetaNext == check_model_metadata \/ update_n_predict \/ compute \/ respond

SpecMeta == MetaInit /\ [][MetaNext]_vars

(***************************************************************************)
(* Tasks: the requests and streams of one process, side by side.  Every    *)
(* function of chat.rs and utils.rs that reaches a graph first takes the   *)
(* guard of CHAT_GRAPHS, runs its backend operations and gives the guard   *)
(* back on return; a request is a sequence of such sections, and each pull *)
(* and the drop of an incremental stream is one more.                      *)
(***************************************************************************)
\* a variant of the test below that lets every mode through
ChatSupportedInAnyMode(mode) == TRUE

\* the test at the top of chat_stream and of chat_once
ChatSupported(mode) == mode # "Embeddings"

\* the backend operations (and reads of graph.metadata) of each section;
\* "cached_encodings" is the part of the Ok arm of compute_stream that runs
\* under the guard of CACHED_UTF8_ENCODINGS
SectionOps(section) ==
    CASE section = "get_model_metadata" -> <<"metadata">>
      [] section = "update_model_metadata" -> <<"set_input">>
      [] section = "set_prompt" -> <<"set_input">>
      [] section = "get_token_info_by_graph_name" -> <<"get_output">>
      [] section = "compute" -> <<"compute", "get_output", "metadata", "get_output">>
      [] section = "compute_stream_token" ->
            <<"compute_single", "get_output_single", "cached_encodings">>
      [] section = "compute_stream_usage" -> <<"compute_single", "get_output">>
      [] section = "compute_stream_done" -> <<"compute_single">>
      [] section = "compute_stream_error" -> <<"compute_single", "finish_single">>
      [] section = "drop" -> <<"finish_single">>

\* the sections of a request: check_model_metadata, build_prompt (one pass
\* of its loop), update_n_predict, set_prompt; chat_once and the tool path
\* of chat_stream go on to compute, the incremental path of chat_stream
\* returns a ChatStream
Program(kind, check_updates, n_predict_updates) ==
    <<"get_model_metadata">>
    \o (IF check_updates THEN <<"update_model_metadata">> ELSE <<>>)
    \o <<"get_model_metadata", "set_prompt", "get_token_info_by_graph_name">>
    \o (IF n_predict_updates THEN <<"update_model_metadata">> ELSE <<>>)
    \o <<"set_prompt">>
    \o (IF kind = "stream" THEN <<>> ELSE <<"compute">>)

\* a variant of the lock below that never waits
CanLockAnyway(holder) == TRUE

\* Mutex::lock returns once no other guard exists
CanLock(holder) == holder = 0

TaskInit ==
    /\ prompt_template = "ChatMLTool"
    /\ OnceIdle
    /\ StreamIdle
    /\ PromptIdle
    /\ MetaIdle
    /\ running_mode \in {"Chat", "Embeddings", "ChatEmbeddings"}
    /\ chat_graphs_lock = 0
    /\ task = [t \in Tasks |-> IdleTask]
    /\ input_prompt = [g \in {"a", "b"} |-> 0]

\* chat: a request arrives and chat_stream or chat_once tests the mode
chat(t) ==
    /\ task[t].pc = "idle"
    /\ \E kind \in {"once", "stream", "tool_stream"}, g \in {"a", "b"},
          check_updates \in BOOLEAN, n_predict_updates \in BOOLEAN :
          task' = [task EXCEPT ![t] =
                      IF ChatSupported(running_mode)
                      THEN [@ EXCEPT !.pc = "running", !.kind = kind, !.graph = g,
                                     !.program = Program(kind, check_updates,
                                                         n_predict_updates)]
                      ELSE [@ EXCEPT !.pc = "finished", !.kind = kind, !.graph = g,
                                     !.result = "Operation"]]
    /\ UNCHANGED <<input_prompt, running_mode, chat_graphs_lock, prompt_template, once_vars,
                   stream_vars, prompt_vars, meta_vars>>

\* CHAT_GRAPHS.lock() at the start of a section
lock(t) ==
    /\ task[t].pc \in {"running", "streaming", "dropping"}
    /\ task[t].program # <<>>
    /\ ~task[t].holding
    /\ CanLock(chat_graphs_lock)
    /\ chat_graphs_lock' = t
    /\ task' = [task EXCEPT ![t] =
                   [@ EXCEPT !.holding = TRUE, !.touched = TRUE,
                             !.ops = SectionOps(Head(task[t].program))]]
    /\ UNCHANGED <<input_prompt, running_mode, prompt_template, once_vars, stream_vars,
                   prompt_vars, meta_vars>>

\* the task that holds the guard of CACHED_UTF8_ENCODINGS, or 0
CachedEncodingsLock ==
    IF \E u \in Tasks : task[u].busy /\ Head(task[u].ops) = "cached_encodings"
    THEN CHOOSE u \in Tasks : task[u].busy /\ Head(task[u].ops) = "cached_encodings"
    ELSE 0

\* the next backend operation of the section begins
begin_operation(t) ==
    /\ task[t].holding
    /\ ~task[t].busy
    /\ task[t].ops # <<>>
    /\ Head(task[t].ops) = "cached_encodings" => CanLock(CachedEncodingsLock)
    /\ task' = [task EXCEPT ![t] = [@ EXCEPT !.busy = TRUE]]
    /\ UNCHANGED <<input_prompt, running_mode, chat_graphs_lock, prompt_template, once_vars,
                   stream_vars, prompt_vars, meta_vars>>

\* the operation returns; an error leaves the rest of the section out.
\* set_prompt writes the request's prompt to input slot 0 of the graph
\* (set_tensor_data_u8(graph, 0, ..))
end_operation(t) ==
    /\ task[t].busy
    /\ \E ok \in BOOLEAN :
          /\ task' = [task EXCEPT ![t] =
                         [@ EXCEPT !.busy = FALSE,
                                   !.ops = IF ok THEN Tail(task[t].ops) ELSE <<>>,
                                   !.result = IF ok THEN task[t].result ELSE "Backend"]]
          /\ input_prompt' = IF ok /\ Head(task[t].program) = "set_prompt"
                             THEN [input_prompt EXCEPT ![task[t].graph] = t]
                             ELSE input_prompt
    /\ UNCHANGED <<running_mode, chat_graphs_lock, prompt_template, once_vars,
                   stream_vars, prompt_vars, meta_vars>>

\* where a task stands once the section `section` is over; `pruned` tells
\* that build_prompt got as far as its prune step, the one place where the
\* request's message list is changed
AfterSection(tk, section) ==
    IF tk.pc = "running" /\ tk.result = "Backend"
    THEN [tk EXCEPT !.pc = "finished", !.program = <<>>]
    ELSE IF tk.pc = "running" /\ Tail(tk.program) # <<>>
    THEN [tk EXCEPT !.program = Tail(tk.program),
                    !.pruned = tk.pruned \/ section = "get_token_info_by_graph_name"]
    ELSE IF tk.pc = "running"
    THEN [tk EXCEPT !.program = <<>>, !.result = "Ok",
                    !.pc = IF tk.kind = "stream" THEN "streaming" ELSE "finished",
                    !.stream = IF tk.kind = "stream" THEN "live"
                               ELSE IF tk.kind = "tool_stream" THEN "cached"
                               ELSE "none"]
    ELSE IF tk.pc = "streaming"
    THEN [tk EXCEPT !.program = <<>>,
                    !.stream = IF section = "compute_stream_done" /\ tk.result # "Backend"
                               THEN "done_sent" ELSE "live",
                    !.result = "Ok"]
    ELSE [tk EXCEPT !.program = <<>>, !.pc = "finished", !.stream = "dropped",
                    !.result = "Ok"]

\* a variant of the return below that keeps the guard when the section failed
unlock_on_success_only(t) ==
    /\ task[t].holding
    /\ ~task[t].busy
    /\ task[t].ops = <<>>
    /\ chat_graphs_lock' = IF task[t].result = "Backend" THEN chat_graphs_lock ELSE 0
    /\ task' = [task EXCEPT ![t] =
                   AfterSection([task[t] EXCEPT !.holding = FALSE],
                                Head(task[t].program))]
    /\ UNCHANGED <<input_prompt, running_mode, prompt_template, once_vars, stream_vars,
                   prompt_vars, meta_vars>>

\* the section returns and its guard is dropped
unlock(t) ==
    /\ task[t].holding
    /\ ~task[t].busy
    /\ task[t].ops = <<>>
    /\ chat_graphs_lock' = IF chat_graphs_lock = t THEN 0 ELSE chat_graphs_lock
    /\ task' = [task EXCEPT ![t] =
                   AfterSection([task[t] EXCEPT !.holding = FALSE],
                                Head(task[t].program))]
    /\ UNCHANGED <<input_prompt, running_mode, prompt_template, once_vars, stream_vars,
                   prompt_vars, meta_vars>>

\* ChatStream::poll_next on an incremental stream: compute_stream, which
\* returns at once when a sub-state is EndOfSequence
pull(t) ==
    /\ task[t].pc = "streaming"
    /\ task[t].program = <<>>
    /\ \/ /\ task[t].stream = "live"
          /\ task[t].pulls < MaxTaskPulls
          /\ \E section \in {"compute_stream_token", "compute_stream_usage",
                             "compute_stream_done", "compute_stream_error"} :
                task' = [task EXCEPT ![t] =
                            [@ EXCEPT !.program = <<section>>,
                                      !.pulls = task[t].pulls + 1]]
       \/ /\ task[t].stream = "done_sent"
          /\ task' = [task EXCEPT ![t] = [@ EXCEPT !.stream = "ended"]]
    /\ UNCHANGED <<input_prompt, running_mode, chat_graphs_lock, prompt_template, once_vars,
                   stream_vars, prompt_vars, meta_vars>>

\* impl Drop for ChatStream, cache being None
drop_stream(t) ==
    /\ task[t].pc = "streaming"
    /\ task[t].program = <<>>
    /\ task' = [task EXCEPT ![t] = [@ EXCEPT !.pc = "dropping", !.program = <<"drop">>]]
    /\ UNCHANGED <<input_prompt, running_mode, chat_graphs_lock, prompt_template, once_vars,
                   stream_vars, prompt_vars, meta_vars>>

TaskNext ==
    \E t \in Tasks :
        \/ chat(t)
        \/ lock(t)
        \/ begin_operation(t)
        \/ end_operation(t)
        \/ unlock(t)
        \/ pull(t)
        \/ drop_stream(t)

SpecTasks == TaskInit /\ [][TaskNext]_vars

(***************************************************************************)
(* Claims about streams (checked under Spec and SpecGeneration).           *)
(***************************************************************************)
Incremental == stream_pc \in {"live", "dropped"} /\ ~cache.some

Positions(kind) == {i \in 1..Len(yielded) : yielded[i].item = kind}

UsagePositions == {i \in 1..Len(yielded) : yielded[i].usage_some}

IsContentChunk(it) ==
    /\ it.item = "chunk"
    /\ it.choices = 1
    /\ it.content_some
    /\ it.finish_reason = "null"
    /\ ~it.usage_some

IsUsageChunk(it) == it.item = "chunk" /\ it.choices = 0 /\ it.usage_some

\* every read of the backend that followed a compute_single call succeeded
AllReadsOk == \A i \in 1..Len(calls) : calls[i].read_ok

\* the backend produced tokens and, from some call on, only EndOfSequence
TokensThenEnd ==
    /\ \A i \in 1..Len(calls) : calls[i].result \in {"Ok", "EndOfSequence"}
    /\ \A i, j \in 1..Len(calls) :
          (i < j /\ calls[i].result = "EndOfSequence") =>
              calls[j].result = "EndOfSequence"

RECURSIVE TokenBytes(_)
TokenBytes(history) ==
    IF history = <<>> THEN <<>>
    ELSE Head(history).bytes \o TokenBytes(Tail(history))

\* the bytes are valid UTF-8, or valid UTF-8 cut off inside the last character
RECURSIVE Utf8PrefixOk(_)
Utf8PrefixOk(bytes) ==
    IF bytes = <<>> THEN TRUE
    ELSE LET w == Utf8Width(Head(bytes))
             have == IF Len(bytes) < w THEN Len(bytes) ELSE w
         IN  /\ w # 0
             /\ have >= 2 => Utf8SecondOk(bytes[1], bytes[2])
             /\ \A i \in 3..have : IsContinuation(bytes[i])
             /\ Len(bytes) > w => Utf8PrefixOk(SubSeq(bytes, w + 1, Len(bytes)))

\* C1: in incremental mode, when the backend yields k content tokens and
\* from then on EndOfSequence (and every read succeeds, the token bytes
\* being well-formed UTF-8), the stream yields exactly k content chunks,
\* then one usage chunk iff include_usage, then [DONE], then end-of-stream.
C1_TokensThenUsageThenDone ==
    (Incremental /\ TokensThenEnd /\ AllReadsOk /\ Utf8PrefixOk(TokenBytes(calls))) =>
        LET k == Count(Results(calls), "Ok")
            u == IF include_usage THEN 1 ELSE 0
        IN  \A i \in 1..Len(yielded) :
               /\ i <= k => IsContentChunk(yielded[i])
               /\ (i = k + 1 /\ include_usage) => IsUsageChunk(yielded[i])
               /\ i = k + u + 1 => yielded[i] = DoneItem
               /\ i > k + u + 1 => yielded[i] = NoneItem

\* C2: whenever a pull yields end-of-stream, the last item yielded before
\* the end of the stream is [DONE], and [DONE] is yielded at most once,
\* for incremental and pre-computed streams and any backend outcomes.
C2_DoneIsLastAndOnce ==
    /\ \A i \in Positions("None") :
          \E j \in 1..(i - 1) :
             /\ yielded[j] = DoneItem
             /\ \A l \in (j + 1)..(i - 1) : yielded[l] = NoneItem
    /\ Cardinality(Positions("[DONE]")) <= 1

\* an incremental stream that saw an error, ContextFull and EndOfSequence
\* and was pulled to its end
C2_Witness ==
    /\ Incremental
    /\ Positions("None") # {}
    /\ Positions("Err") # {}
    /\ Count(Results(calls), "ContextFull") > 0
    /\ Count(Results(calls), "EndOfSequence") > 0

\* C3: with include_usage = true, a stream that reached [DONE] has yielded
\* exactly one chunk with a non-null usage, before [DONE], for any order of
\* backend outcomes (tokens, EndOfSequence, ContextFull, PromptTooLong).
C3_OneUsageBeforeDone ==
    (/\ include_usage
     /\ stream_pc \in {"live", "dropped"}
     /\ Positions("[DONE]") # {}
     /\ Positions("Err") = {}
     /\ AllReadsOk
     /\ Count(Results(calls), "Other") = 0) =>
        /\ Cardinality(UsagePositions) = 1
        /\ \A p \in UsagePositions, d \in Positions("[DONE]") : p < d

\* C4: an incremental stream dropped before it was drained has had
\* finish_single called exactly once over its lifetime, also when pulls
\* returned a backend error.
C4_FinishSingleOnce ==
    (stream_pc = "dropped" /\ ~cache.some /\ Positions("None") = {}) =>
        finish_single_calls = 1

\* the first call of compute_single that returned `result`
FirstPosition(result) ==
    CHOOSE i \in 1..Len(calls) :
        /\ calls[i].result = result
        /\ \A j \in 1..(i - 1) : calls[j].result # result

\* compute_single returned `result` and has returned it ever since, and the
\* reads that followed succeeded
KeepsReturning(result) ==
    /\ \E i \in 1..Len(calls) : calls[i].result = result
    /\ \A j \in FirstPosition(result)..Len(calls) :
          calls[j].result = result /\ calls[j].read_ok

\* from pull p on the stream yielded `first`, then one usage chunk iff
\* include_usage, then [DONE], then end-of-stream
TerminalSequence(p, first) ==
    LET u == IF include_usage THEN 1 ELSE 0
    IN  \A i \in p..Len(yielded) :
           /\ i = p => yielded[i] = first
           /\ (i = p + 1 /\ include_usage) => IsUsageChunk(yielded[i])
           /\ i = p + u + 1 => yielded[i] = DoneItem
           /\ i > p + u + 1 => yielded[i] = NoneItem

\* the steps a sub-state machine may take
SubStateSteps ==
    {<<"Message", "Usage">>, <<"Message", "Done">>, <<"Usage", "Done">>,
     <<"Done", "EndOfSequence">>}

C15_NoUsageUnlessAsked ==
    (stream_pc \in {"live", "dropped"} /\ ~include_usage) => UsagePositions = {}

\* the delta.content strings of the chunks among `items`, concatenated
RECURSIVE Contents(_)
Contents(items) ==
    IF items = <<>> THEN <<>>
    ELSE (IF Head(items).item = "chunk" /\ Head(items).content_some
          THEN Head(items).content ELSE <<>>) \o Contents(Tail(items))

\* C16: UTF-8 reassembly: for any sequence of token byte strings returned
\* by compute_single whose concatenation is valid UTF-8, however the code
\* points are split across tokens, no pull fails and the concatenation of
\* the emitted delta.content strings equals the UTF-8 decoding of the
\* concatenated bytes.
C16_Utf8Reassembly ==
    (/\ Incremental
     /\ TokensThenEnd
     /\ AllReadsOk
     /\ from_utf8(TokenBytes(calls)).ok) =>
        /\ Positions("Err") = {}
        /\ Contents(yielded) = from_utf8(TokenBytes(calls)).text

\* C27: a pull of a stream one of whose sub-states is EndOfSequence calls
\* finish_single and then ends the stream
C27_PullAfterDoneFinishes ==
    [][(/\ stream_pc = "live"
        /\ ~cache.some
        /\ AnyEndOfSequence(prompt_too_long_state, context_full_state, stream_state)
        /\ Len(yielded') = Len(yielded) + 1)
       => (/\ finish_single_calls' = finish_single_calls + 1
           /\ yielded'[Len(yielded')] = NoneItem)]_vars

\* C28: when compute_single fails with an error other than EndOfSequence,
\* ContextFull or PromptTooLong, the pull calls finish_single once and yields
\* Err(Backend::ComputeSingle), or Err(Backend::FinishSingle) when
\* finish_single fails; it emits no chunk and leaves the three sub-states
\* as they were
C28_OtherErrorFinishesAndFails ==
    [][(/\ Len(calls') = Len(calls) + 1
        /\ calls'[Len(calls')].result = "Other")
       => (/\ finish_single_calls' = finish_single_calls + 1
           /\ ComputeStreamOther(TRUE).ret = ErrItem("Backend::ComputeSingle")
           /\ ComputeStreamOther(FALSE).ret = ErrItem("Backend::FinishSingle")
           /\ yielded' \in {Append(yielded, ComputeStreamOther(ok).ret) : ok \in BOOLEAN}
           /\ UNCHANGED <<stream_state, context_full_state, prompt_too_long_state>>)]_vars

\* a pull has just failed with another backend error
C28_Witness ==
    /\ stream_pc = "live"
    /\ calls # <<>>
    /\ calls[Len(calls)].result = "Other"
    /\ yielded # <<>>
    /\ yielded[Len(yielded)] = ErrItem("Backend::FinishSingle")
    /\ finish_single_calls = 1

\* C29: the UTF-8 residual is bounded: it never holds more than 4 bytes,
\* not even after a pull failed with the residual-overflow error
C29_ResidualAtMostFourBytes == Len(cached_encodings) <= 4

\* C30: the UTF-8 residual belongs to one stream: a stream starts with an
\* empty residual, and a first token that is not valid UTF-8 on its own
\* gives an empty chunk, never text made with the bytes of another stream
C30_ResidualOfOneStream ==
    /\ (stream_pc = "live" /\ ~cache.some /\ calls = <<>>) => cached_encodings = <<>>
    /\ (/\ stream_pc = "live"
        /\ Len(calls) = 1
        /\ calls[1].result = "Ok"
        /\ calls[1].read_ok
        /\ ~from_utf8(calls[1].bytes).ok
        /\ Len(calls[1].bytes) <= 4)
       => yielded = <<MessageChunk(TRUE, <<>>, <<>>, "null")>>

\* C32: once an incremental stream has yielded [DONE], every further pull
\* yields the end of the stream, makes no backend call (no compute_single,
\* no finish_single) and leaves the three sub-states as they were
C32_PullAfterDoneIsInert ==
    [][(/\ stream_pc = "live"
        /\ ~cache.some
        /\ Positions("[DONE]") # {}
        /\ Len(yielded') = Len(yielded) + 1)
       => (/\ yielded' = Append(yielded, NoneItem)
           /\ calls' = calls
           /\ finish_single_calls' = finish_single_calls
           /\ UNCHANGED <<stream_state, context_full_state, prompt_too_long_state,
                          cached_encodings>>)]_vars

\* an incremental stream was pulled twice after its [DONE]
C32_Witness ==
    /\ Incremental
    /\ stream_pc = "live"
    /\ Len(yielded) >= 3
    /\ yielded[Len(yielded) - 2] = DoneItem
    /\ yielded[Len(yielded) - 1] = NoneItem
    /\ yielded[Len(yielded)] = NoneItem

\* C40: the three sub-states are independent: a pull whose backend outcome
\* is EndOfSequence changes at most stream_state, one whose outcome is
\* ContextFull at most context_full_state, one whose outcome is
\* PromptTooLong at most prompt_too_long_state, and a pull that returns a
\* token changes none of the three
C40_SubStatesIndependent ==
    [][(Len(calls') = Len(calls) + 1) =>
        LET result == calls'[Len(calls')].result
        IN  /\ result # "EndOfSequence" => stream_state' = stream_state
            /\ result # "ContextFull" => context_full_state' = context_full_state
            /\ result # "PromptTooLong" =>
                   prompt_too_long_state' = prompt_too_long_state]_vars

\* a stream whose backend returned a token and each of the three terminal
\* conditions, so that each sub-state machine has moved
C40_Witness ==
    /\ Incremental
    /\ \A result \in {"Ok", "EndOfSequence", "ContextFull", "PromptTooLong"} :
          Count(Results(calls), result) > 0
    /\ stream_state = "Done"
    /\ context_full_state = "Usage"
    /\ prompt_too_long_state = "Usage"

\* the steps a sub-state machine still has to take to reach EndOfSequence
StepsLeft(state) ==
    CASE state = "Message" -> 3
      [] state = "Usage" -> 2
      [] state = "Done" -> 1
      [] state = "EndOfSequence" -> 0

TerminalStepsLeft ==
    StepsLeft(stream_state) + StepsLeft(context_full_state)
        + StepsLeft(prompt_too_long_state)

\* C33: a stream that is pulled while the backend returns only EndOfSequence,
\* ContextFull or PromptTooLong reaches its end after a bounded number of
\* pulls: every such pull moves one sub-state machine a step nearer to
\* EndOfSequence (there are at most 8 steps), and the pull after one of them
\* got there ends the stream
C33_TerminalPullsAreBounded ==
    [][/\ (/\ Len(calls') = Len(calls) + 1
           /\ calls'[Len(calls')].result \in {"EndOfSequence", "ContextFull", "PromptTooLong"})
          => TerminalStepsLeft' < TerminalStepsLeft
       /\ (/\ stream_pc = "live"
           /\ ~cache.some
           /\ 0 \in {StepsLeft(stream_state), StepsLeft(context_full_state),
                     StepsLeft(prompt_too_long_state)}
           /\ Len(yielded') = Len(yielded) + 1)
          => yielded' = Append(yielded, NoneItem)]_vars

\* a stream that saw only terminal conditions, of two kinds, one failed read
\* of the token counts among them, and was pulled to its end
C33_Witness ==
    /\ Incremental
    /\ include_usage
    /\ Len(calls) >= 4
    /\ \A i \in 1..Len(calls) : calls[i].result \in {"EndOfSequence", "ContextFull"}
    /\ \E i \in 1..Len(calls) : calls[i].result = "EndOfSequence" /\ ~calls[i].read_ok
    /\ \E i \in 1..Len(calls) : calls[i].result = "ContextFull"
    /\ yielded[Len(yielded)] = NoneItem

\* C35: a pre-computed stream yields exactly its three cached chunks in
\* order (the message or tool-call chunk, the usage chunk, [DONE]) and then
\* the end of the stream; draining it makes no backend call, and dropping
\* it at any point does not call finish_single
C35_CachedStreamDrains ==
    (stream_pc \in {"live", "dropped"} /\ cache.some) =>
        LET k == IF Len(yielded) < 3 THEN Len(yielded) ELSE 3
            chunks == SubSeq(yielded, 1, k) \o cache.chunks
        IN  /\ Len(chunks) = 3
            /\ chunks[1].item = "chunk"
            /\ chunks[1].choices = 1
            /\ ~chunks[1].usage_some
            /\ IsUsageChunk(chunks[2])
            /\ chunks[3] = DoneItem
            /\ \A i \in 4..Len(yielded) : yielded[i] = NoneItem
            /\ calls = <<>>
            /\ finish_single_calls = 0

\* a pre-computed stream with a tool call, built for a request that did not
\* ask for usage, drained past its end and dropped
C35_Witness ==
    /\ stream_pc = "dropped"
    /\ cache.some
    /\ ~include_usage
    /\ Len(yielded) = 5
    /\ yielded[1].tool_calls # <<>>
    /\ yielded[5] = NoneItem

(***************************************************************************)
(* Claims about build_prompt (checked under SpecPrompt).                   *)
(***************************************************************************)
RolesOf(ms) == [i \in 1..Len(ms) |-> ms[i].role]

Unprunable(ms) ==
    \/ RoleAt(ms, 0) = "System" /\ Len(ms) <= 2
    \/ RoleAt(ms, 0) = "System" /\ Len(ms) = 3 /\ RoleAt(ms, 1) # "User"
    \/ RoleAt(ms, 0) = "System" /\ Len(ms) >= 4
                                /\ RoleAt(ms, 1) \notin {"User", "Assistant"}
    \/ RoleAt(ms, 0) = "User" /\ Len(ms) = 1

WellFormedConversation(roles) ==
    /\ roles # <<>>
    /\ roles[Len(roles)] \in {"User", "Tool"}
    /\ \A i \in 1..Len(roles) :
          /\ roles[i] = "System" => i = 1
          /\ roles[i] = "Tool" => i > 1 /\ roles[i - 1] \in {"Assistant", "Tool"}
          /\ roles[i] = "Assistant" => i > 1 /\ roles[i - 1] \in {"User", "Tool"}
          /\ roles[i] = "User" => i = 1 \/ roles[i - 1] \in {"System", "Assistant"}

\* the oldest message of the history, counted from 0
Oldest(ms) == IF RoleAt(ms, 0) = "System" THEN 1 ELSE 0

\* C8: after every prune step no orphan Tool message is left at the oldest
\* position of the history: the message after the system message
\* (system-first lists) or the first message (user-first lists) is never a
\* Tool message.
C8_NoOrphanTool ==
    (/\ WellFormedConversation(RolesOf(original_messages))
     /\ bp_pc \in {"loop", "returned", "failed"}
     /\ Len(messages) < Len(original_messages)
     /\ messages # <<>>
     /\ Len(messages) > Oldest(messages)) =>
        RoleAt(messages, Oldest(messages)) # "Tool"

\* C12: build_prompt reports tool_use = true exactly when tool_choice is
\* Auto or Named and the request's tools list is non-empty; with tool_choice
\* absent or None, or tools absent or empty, tool_use is false.
C12_ToolUseIffToolsGiven ==
    bp_pc = "returned" =>
        (bp_result.tool_use <=>
            (tool_choice \in {"Auto", "Named"} /\ tools = "some"))

\* C23: the prompt the Qwen2vl template renders begins with exactly one
\* system turn: the first message's when that message is a System message,
\* the default one otherwise, whatever the roles of the other messages
C23_OneLeadingSystemTurn ==
    (bp_pc = "returned" /\ bp_result.result = "Ok") =>
        /\ Head(bp_result.prompt) =
              Turn("system", IF messages[1].role = "System" THEN messages[1].id ELSE 0)
        /\ Cardinality({i \in 1..Len(bp_result.prompt) : bp_result.prompt[i].turn = "system"}) = 1

\* C24: build_prompt terminates: a pass of the loop that finds the prompt
\* over the limit either leaves the loop or strictly shortens the message list
C24_OverLimitPassShortens ==
    [][(bp_pc = "loop" /\ bp_pc' = "loop") => Len(messages') < Len(messages)]_vars

\* C25: for a request whose first message is a System or a User message,
\* build_prompt never aborts, whatever token counts the backend reports
C25_NoAbortForSystemOrUserFirst ==
    (original_messages # <<>> /\ original_messages[1].role \in {"System", "User"})
        => bp_pc # "panicked"

\* C26: pruning never removes the latest turn: once build_prompt has
\* returned or failed, the message list is non-empty and still ends with
\* the last message of the request
C26_LatestTurnKept ==
    (original_messages # <<>> /\ bp_pc \in {"returned", "failed"})
        => /\ messages # <<>>
           /\ messages[Len(messages)] = original_messages[Len(original_messages)]

\* C36: a prune step on a list that starts with a System message and has
\* at least 4 messages removes exactly the messages at indices 1 and 2,
\* whatever their roles; the system message and the messages from index 3
\* on stay, in their order
C36_SystemFirstDropsOldestTurn ==
    [][(/\ bp_pc = "loop"
        /\ bp_pc' = "loop"
        /\ Len(messages) >= 4
        /\ RoleAt(messages, 0) = "System")
       => messages' = <<messages[1]>> \o SubSeq(messages, 4, Len(messages))]_vars

(***************************************************************************)
(* Claims about metadata (checked under SpecMeta).                         *)
(***************************************************************************)
\* the graph's configured metadata overlaid with the request's own options
ConfigOfRequest(configured, req) ==
    NPredictMetadata(CheckedMetadata(configured, req), req,
                     Available(configured.ctx_size))

\* C9: every request reconciles metadata before compute: when compute or
\* compute_single runs for a request, the record last written to input
\* slot 1 equals the graph's configured metadata overlaid with that
\* request's own options, whatever earlier requests pushed.
C9_ReconciledBeforeCompute ==
    meta_pc = "computing" =>
        backend_config = ConfigOfRequest(graph_metadata, request)

\* C19: whenever chat inference (compute or compute_single) runs on a
\* graph, the record the backend holds has embeddings = false:
\* check_model_metadata pushes embeddings = false whenever the graph is
\* configured with embeddings = true, and no later step of the request
\* pushes embeddings = true.
C19_NoEmbeddingsWhileChatting ==
    meta_pc = "computing" => ~backend_config.embeddings

\* inference runs on a graph configured with embeddings = true
C19_Witness ==
    /\ meta_pc = "computing"
    /\ graph_metadata.embeddings
    /\ ~backend_config.embeddings

(***************************************************************************)
(* Claims about tasks (checked under SpecTasks).                           *)
(***************************************************************************)
\* C17: every backend operation on a graph and every read of a graph's
\* metadata happens while the task holds the CHAT_GRAPHS lock, so under any
\* interleaving of requests, pulls and drops no two operations overlap.
C17_SerializedByLock ==
    /\ \A t \in Tasks : task[t].busy => chat_graphs_lock = t
    /\ \A t1, t2 \in Tasks : (task[t1].busy /\ task[t2].busy) => t1 = t2

\* one task is inside compute_single while another waits for the lock
C17_Witness ==
    \E t1, t2 \in Tasks :
        /\ task[t1].busy
        /\ Head(task[t1].ops) = "compute_single"
        /\ task[t2].pc = "running"
        /\ ~task[t2].holding
        /\ task[t2].program # <<>>

\* the stream of the task was created and has neither ended nor been dropped
InFlight(t) == task[t].kind = "stream" /\ task[t].stream \in {"live", "done_sent"}

\* C18: in no reachable state do two incremental streams that have been
\* created and have neither ended nor been dropped target the same graph.
C18_OneStreamPerGraph ==
    \A t1, t2 \in Tasks :
        (t1 # t2 /\ InFlight(t1) /\ InFlight(t2)) => task[t1].graph # task[t2].graph

\* C20: if the running mode is Embeddings, a chat request (streaming or
\* one-shot) fails with an Operation error before any registry or backend
\* interaction: nothing is written or computed and the request's message
\* list is left as it was.
C20_EmbeddingsModeFailsFast ==
    running_mode = "Embeddings" =>
        /\ chat_graphs_lock = 0
        /\ \A t \in Tasks :
              task[t].pc # "idle" =>
                  /\ task[t].pc = "finished"
                  /\ task[t].result = "Operation"
                  /\ ~task[t].touched
                  /\ ~task[t].pruned
                  /\ task[t].stream = "none"

\* in Embeddings mode a streaming and a one-shot request were both answered
C20_Witness ==
    /\ running_mode = "Embeddings"
    /\ \E t1, t2 \in Tasks :
          /\ task[t1].pc = "finished" /\ task[t1].kind = "stream"
          /\ task[t2].pc = "finished" /\ task[t2].kind = "once"

\* the smaller of two numbers
Smaller(a, b) == IF a < b THEN a ELSE b

\* C37: update_n_predict sets n_predict to min(max_tokens, available) when
\* the request gives max_tokens and to min(n_predict, available) otherwise,
\* and when it has returned the n_predict the backend holds is at most
\* available = ctx_size - floor(ctx_size * 4 / 5)
C37_NPredictWithinAvailable ==
    [][(meta_pc = "checked" /\ meta_pc' = "updated") =>
        LET available == graph_metadata.ctx_size - (graph_metadata.ctx_size * 4) \div 5
        IN  /\ metadata'.n_predict =
                  IF request.max_tokens # <<>>
                  THEN Smaller(request.max_tokens[1], available)
                  ELSE Smaller(metadata.n_predict, available)
            /\ backend_config'.n_predict <= available]_vars

\* requests were clamped both ways: the graph is configured with more than
\* is available and the current request asked for more, too
C37_Witness ==
    /\ meta_pc = "updated"
    /\ graph_metadata.n_predict = 3
    /\ graph_metadata.ctx_size = 5
    /\ request.max_tokens = <<3>>
    /\ metadata.n_predict = 1
    /\ backend_config.n_predict = 1

\* C31: whenever compute or compute_single runs for a request, input slot 0
\* of its graph holds the prompt that request set, also when another
\* request on the same graph ran in between
C31_ComputeRunsOnOwnPrompt ==
    \A t \in Tasks :
        (task[t].busy /\ Head(task[t].ops) \in {"compute", "compute_single"})
            => input_prompt[task[t].graph] = t

\* the task is about to take, or is waiting for, the guard of CHAT_GRAPHS
WantsLock(t) ==
    /\ task[t].pc \in {"running", "streaming", "dropping"}
    /\ task[t].program # <<>>
    /\ ~task[t].holding

\* C34: no operation blocks forever on a lock: a task never asks for
\* CHAT_GRAPHS while it holds it, CACHED_UTF8_ENCODINGS is only taken by the
\* holder of CHAT_GRAPHS (registry first), a task that holds a guard can
\* always go on and every section gives its guards back when it returns,
\* on success and on error, so a waiting task is never stuck
C34_NoLockBlocksForever ==
    \A t \in Tasks :
        /\ task[t].holding <=> chat_graphs_lock = t
        /\ CachedEncodingsLock = t => chat_graphs_lock = t
        /\ task[t].holding =>
              ENABLED (begin_operation(t) \/ end_operation(t) \/ unlock(t))
        /\ (task[t].pc \in {"idle", "finished"} \/ task[t].program = <<>>) =>
              (~task[t].holding /\ chat_graphs_lock # t /\ CachedEncodingsLock # t)
        /\ (WantsLock(t) /\ chat_graphs_lock = 0) => ENABLED lock(t)

\* one task runs under both guards while the other, whose stream is being
\* dropped, waits for CHAT_GRAPHS
C34_Witness ==
    \E t, u \in Tasks :
        /\ CachedEncodingsLock = t
        /\ WantsLock(u)
        /\ task[u].pc = "dropping"

(***************************************************************************)
(* Claims about the one-shot driver (checked under SpecOnce).              *)
(***************************************************************************)
Responded == once_pc = "done" /\ response.result = "Ok"

\* a tool-call record the parser can extract: the pattern matches and the
\* capture is valid JSON
HasToolCallRecord(message) ==
    \E i \in 1..Len(message) : message[i] \in {"call_ok", "call_escaped", "call_noname"}

\* C5: the outcome of the blocking compute decides the response: Ok gives
\* finish_reason stop, or tool_calls when tool_use is true and tool calls
\* were extracted; ContextFull gives length with an empty tool_calls list;
\* PromptTooLong gives length; any other backend error gives
\* Err(Backend::Compute) and no response object.
C5_OutcomeDecidesResponse ==
    /\ (Responded /\ compute_result = "Ok") =>
          \/ response.finish_reason = "stop" /\ response.tool_calls = <<>>
          \/ /\ response.finish_reason = "tool_calls"
             /\ tool_use
             /\ response.tool_calls # <<>>
    /\ (Responded /\ compute_result = "ContextFull") =>
          response.finish_reason = "length" /\ response.tool_calls = <<>>
    /\ (Responded /\ compute_result = "PromptTooLong") =>
          response.finish_reason = "length"
    /\ (once_pc = "done" /\ compute_result = "Other") =>
          response.result = "Backend::Compute"

\* C6: every usage record returned by the one-shot driver satisfies
\* total_tokens = prompt_tokens + completion_tokens.
C6_UsageTotalOnce ==
    Responded =>
        response.usage.total_tokens =
            response.usage.prompt_tokens + response.usage.completion_tokens

\* C10: with tool_use = true and a supported template, a generation without
\* any extractable tool-call record gives finish_reason = stop, and
\* finish_reason = tool_calls is produced only when at least one tool call
\* was extracted.
C10_NoRecordGivesStop ==
    (Responded /\ compute_result = "Ok" /\ tool_use /\ SupportsTools(prompt_template)) =>
        /\ ~HasToolCallRecord(response.content) => response.finish_reason = "stop"
        /\ response.finish_reason = "tool_calls" => response.tool_calls # <<>>

\* C11: whenever tool_use is true and the graph's template is neither
\* MistralTool nor ChatMLTool, the request fails (with an Operation error,
\* or with the error of a failed read of the backend), whether the compute
\* call returned Ok, ContextFull or PromptTooLong.
C11_UnsupportedTemplateFails ==
    (/\ once_pc = "done"
     /\ tool_use
     /\ ~SupportsTools(prompt_template)
     /\ compute_result \in {"Ok", "ContextFull", "PromptTooLong"}) =>
        response.result \in {"Operation", "Backend::GetOutput"}

\* C21: post-processing is idempotent: post-processing the content of a
\* response again, with the same template, returns that content unchanged
C21_PostProcessIdempotent ==
    (once_pc = "done" /\ response.result = "Ok") =>
        post_process(response.content, prompt_template) = Returned(response.content)

\* the well-formed blocks of a generation, in order of appearance
WellFormedBlocks(text) ==
    SelectSeq(text, LAMBDA a : a \in {"call_ok", "call_escaped"})

\* C22: with the ChatMLTool template and tool use, a generation holding
\* n >= 1 well-formed tool-call blocks gives a response with finish_reason
\* tool_calls and exactly n tool calls, in order of appearance, each carrying
\* the name and the arguments of its block
C22_OneCallPerBlock ==
    LET blocks == WellFormedBlocks(output_buffer.text)
    IN  (/\ once_pc = "done"
         /\ prompt_template = "ChatMLTool"
         /\ tool_use
         /\ compute_result = "Ok"
         /\ response.result = "Ok"
         /\ Len(blocks) >= 1)
        => /\ response.finish_reason = "tool_calls"
           /\ Len(response.tool_calls) = Len(blocks)
           /\ \A i \in 1..Len(blocks) :
                 /\ response.tool_calls[i].function.name = Captured(blocks[i]).name
                 /\ response.tool_calls[i].function.arguments = Captured(blocks[i]).arguments

\* C38: when a captured record is valid JSON but lacks the name or the
\* arguments member, parse_tool_calls returns None without aborting, and
\* the request completes as a normal assistant message (unless the read
\* of the token counts fails)
C38_IncompleteRecordGivesNone ==
    LET message == post_process(output_buffer.text, prompt_template)
    IN  (/\ once_pc = "done"
         /\ tool_use
         /\ SupportsTools(prompt_template)
         /\ compute_result = "Ok"
         /\ output_buffer.status = "Ok"
         /\ ~message.panic
         /\ \E i \in 1..Len(message.val) : message.val[i] = "call_noname"
         /\ response.result # "Backend::GetOutput")
        => /\ ~parse_tool_calls(message.val, prompt_template).panic
           /\ ~parse_tool_calls(message.val, prompt_template).some
           /\ response.result = "Ok"
           /\ response.finish_reason = "stop"
           /\ response.tool_calls = <<>>

\* C39: post_process is total: it returns for every raw generation and
\* every template, also for the Mistral family when the text holds "</s>"
\* elsewhere than at its end
C39_PostProcessTotal ==
    (once_pc = "done" /\ output_buffer.status = "Ok" /\ compute_result # "Other")
        => ~post_process(output_buffer.text, prompt_template).panic

====
